---- MODULE Spec2Model ----
(***************************************************************************)
(* Component detection (devsync/core/component_detector.py), the           *)
(* capability registry (devsync/ai_tools/capability_registry.py), the     *)
(* package creator (aiconfigkit/core/package_creator.py) and the manifest  *)
(* parser (devsync/core/package_manifest_v2.py).                           *)
(*                                                                         *)
(* Paths and names are strings; a file on disk is an entry                 *)
(*   [root, parts, stem, suffix, dir, path, real, ino]                     *)
(* reachable at path = dir/<stem><suffix>, dir = <root dir>/<parts joined  *)
(* by "/">, whose symlink-resolved location is real.  ino orders a         *)
(* directory listing.                                                      *)
(***************************************************************************)
EXTENDS Integers, Sequences, FiniteSets, TLC

VARIABLES
    files,          \* the filesystem snapshot: a set of entries
    scope,          \* ComponentDetector.scope
    tool_filter,    \* ComponentDetector.tool_filter (None or a list of names)
    result,         \* what detect_all returned (None before the call)
    opened,         \* files opened for reading by detect_all, in order
    log,            \* logger.warning calls made by detect_all, in order
    det,            \* create(): the detection_result argument
    selected,       \* create(): the selected_components argument
    scrub_secrets,  \* PackageCreator.scrub_secrets
    outfs,          \* contents of the output directory: path -> content
    cres,           \* what create() returned (None before the call)
    component_filter, \* filter_detection_result: the component_filter argument
    filtered,       \* what filter_detection_result returned
    parsed,         \* what parse_manifest returned for the package directory
    args,           \* the arguments of the command or call being run
    exit_code,      \* the exit codes the command has raised (none before it returns)
    agents,         \* the sections of the single-file tool's AGENTS.md, in order
    pc              \* where the run stands: "new", "ready", "done", "twice" or
                    \* "raised" for a detector; "scanned", "created", "parsed"
                    \* for packaging; "detected", "filtered" for filtering

vars == <<files, scope, tool_filter, result, opened, log,
          det, selected, scrub_secrets, outfs, cres, component_filter, filtered, parsed,
          args, exit_code, agents, pc>>

None == "None"

(***************************************************************************)
(* String and sequence helpers                                             *)
(***************************************************************************)
StartsWith(s, p) == Len(s) >= Len(p) /\ SubSeq(s, 1, Len(p)) = p

EndsWith(s, p) == Len(s) >= Len(p) /\ SubSeq(s, Len(s) - Len(p) + 1, Len(s)) = p

RECURSIVE Join(_, _)
Join(segs, sep) ==
    IF Len(segs) = 0 THEN ""
    ELSE IF Len(segs) = 1 THEN segs[1]
    ELSE segs[1] \o sep \o Join(Tail(segs), sep)

\* str.replace: every non-overlapping occurrence, left to right.
RECURSIVE Replace(_, _, _)
Replace(s, old, new) ==
    LET at == {i \in 1..(Len(s) - Len(old) + 1) : SubSeq(s, i, i + Len(old) - 1) = old}
    IN IF at = {} THEN s
       ELSE LET i == CHOOSE j \in at : \A k \in at : j <= k
            IN SubSeq(s, 1, i - 1) \o new \o Replace(SubSeq(s, i + Len(old), Len(s)), old, new)

\* sub in s
Contains(s, sub) ==
    \E i \in 1..(Len(s) - Len(sub) + 1) : SubSeq(s, i, i + Len(sub) - 1) = sub

Lower(t) ==
    CASE t = "Claude" -> "claude"
      [] t = "CURSOR" -> "cursor"
      [] t = "Rules" -> "rules"
      [] t = "MCP" -> "mcp"
      [] t = "Memory" -> "memory"
      [] OTHER -> t

Range(f) == {f[i] : i \in DOMAIN f}

\* for x in s: acc = Op(acc, x).  The loop is unrolled by halves, the first
\* half being evaluated before the second starts, which keeps the evaluation
\* shallow; the elements are visited in order.
RECURSIVE ForRange(_, _, _, _, _)
ForRange(Op(_, _), acc, s, lo, hi) ==
    IF lo > hi THEN acc
    ELSE IF lo = hi THEN Op(acc, s[lo])
    ELSE LET mid == (lo + hi) \div 2
             half == ForRange(Op, acc, s, lo, mid)
         IN IF half = half THEN ForRange(Op, half, s, mid + 1, hi) ELSE half

ForEach(Op(_, _), acc, s) == ForRange(Op, acc, s, 1, Len(s))

(***************************************************************************)
(* The capability registry                                                 *)
(***************************************************************************)
Cap(tool, supported, idir, iext, glob, proj, hooks, cmds, skills, wfs, mem, key) ==
    [tool |-> tool, supported_components |-> supported,
     instructions_directory |-> idir, instruction_file_extension |-> iext,
     mcp_config_path |-> glob, mcp_project_config_path |-> proj,
     hooks_directory |-> hooks, commands_directory |-> cmds,
     skills_directory |-> skills, workflows_directory |-> wfs,
     memory_file_name |-> mem, mcp_servers_json_key |-> key]

\* A path attribute left at None is the empty string here: the detector only
\* tests these attributes for truth.
CAPABILITY_REGISTRY == <<
    Cap("cursor", {"instruction", "mcp_server", "resource"},
        ".cursor/rules/", ".mdc", "~/.cursor/mcp.json", ".cursor/mcp.json",
        "", "", "", "", "", "mcpServers"),
    Cap("claude", {"instruction", "mcp_server", "hook", "command", "skill", "memory_file", "resource"},
        ".claude/rules/", ".md", "~/.claude/settings.json", ".claude/settings.local.json",
        ".claude/hooks/", ".claude/commands/", ".claude/skills/", "", "CLAUDE.md", "mcpServers"),
    Cap("winsurf", {"instruction", "mcp_server", "workflow", "resource"},
        ".windsurf/rules/", ".md", "~/.codeium/windsurf/mcp_config.json", "",
        "", "", "", ".windsurf/workflows/", "", "mcpServers"),
    Cap("kiro", {"instruction", "resource"},
        ".kiro/steering/", ".md", "", "", "", "", "", "", "", "mcpServers"),
    Cap("cline", {"instruction", "resource"},
        ".clinerules/", ".md", "", "", "", "", "", "", "", "mcpServers"),
    Cap("roo", {"instruction", "mcp_server", "command", "resource"},
        ".roo/rules/", ".md", "", ".roo/mcp.json", "", ".roo/commands/", "", "", "", "mcpServers"),
    Cap("codex", {"instruction", "resource"},
        "", ".md", "", "", "", "", "", "", "", "mcpServers"),
    Cap("gemini", {"instruction", "resource"},
        "", ".md", "~/.gemini/settings.json", "", "", "", "", "", "", "mcpServers"),
    Cap("antigravity", {"instruction", "mcp_server", "resource"},
        ".agent/rules/", ".md", "", ".mcp.json", "", "", "", "", "", "mcpServers"),
    Cap("amazonq", {"instruction", "mcp_server", "resource"},
        ".amazonq/rules/", ".md", "", ".amazonq/mcp.json", "", "", "", "", "", "mcpServers"),
    Cap("jetbrains", {"instruction", "mcp_server", "resource"},
        ".aiassistant/rules/", ".md", "", ".aiassistant/mcp.json", "", "", "", "", "", "mcpServers"),
    Cap("junie", {"instruction", "resource"},
        ".junie/", ".md", "", "", "", "", "", "", "", "mcpServers"),
    Cap("zed", {"instruction", "mcp_server", "resource"},
        "", ".md", "", ".zed/settings.json", "", "", "", "", "", "mcpServers"),
    Cap("continue", {"instruction", "mcp_server", "resource"},
        ".continue/rules/", ".md", "", ".continue/config.json", "", "", "", "", "", "mcpServers"),
    Cap("aider", {"instruction", "resource"},
        "", ".md", "", "", "", "", "", "", "", "mcpServers"),
    Cap("trae", {"instruction", "mcp_server", "resource"},
        ".trae/rules/", ".md", "", ".mcp.json", "", "", "", "", "", "mcpServers"),
    Cap("augment", {"instruction", "mcp_server", "resource"},
        ".augment/rules/", ".md", "", ".augment/mcp.json", "", "", "", "", "", "mcpServers"),
    Cap("tabnine", {"instruction", "mcp_server", "resource"},
        ".tabnine/guidelines/", ".md", "", ".tabnine/mcp.json", "", "", "", "", "", "mcpServers"),
    Cap("openhands", {"instruction", "mcp_server", "resource"},
        ".openhands/microagents/", ".md", "", ".openhands/mcp.json", "", "", "", "", "", "mcpServers"),
    Cap("amp", {"instruction", "resource"},
        "", ".md", "", "", "", "", "", "", "", "mcpServers"),
    Cap("opencode", {"instruction", "resource"},
        "", ".md", "", "", "", "", "", "", "", "mcpServers"),
    Cap("anteroom", {"instruction", "resource"},
        "", ".md", "", "", "", "", "", "", "", "mcpServers"),
    Cap("copilot", {"instruction", "mcp_server"},
        ".github/instructions/", ".instructions.md", "~/.vscode/mcp.json", ".vscode/mcp.json",
        "", "", "", "", "", "servers") >>

supports_component(cap, component_type) == component_type \in cap.supported_components

(***************************************************************************)
(* The filesystem                                                          *)
(***************************************************************************)
Home == "/home/u"

ProjectRoot == "/work/p"

RootDir(root) == IF root = "home" THEN Home ELSE ProjectRoot

RelPath(e) == Join(e.parts \o <<e.stem \o e.suffix>>, "/")

AbsPath(e) == e.path

DirOf(e) == e.dir

FileName(e) == e.stem \o e.suffix

\* pathlib drops a trailing slash when a directory string is joined to a root.
JoinPath(base, rel) ==
    base \o "/" \o (IF EndsWith(rel, "/") THEN SubSeq(rel, 1, Len(rel) - 1) ELSE rel)

ExpandUser(p) == IF StartsWith(p, "~") THEN Home \o SubSeq(p, 2, Len(p)) ELSE p

Exists(fs, p) == \E e \in fs : AbsPath(e) = p \/ e.real = p

Resolve(fs, p) ==
    IF \E e \in fs : AbsPath(e) = p
    THEN (CHOOSE e \in fs : AbsPath(e) = p).real
    ELSE p

\* Entries in directory-listing order.
RECURSIVE Listing(_)
Listing(S) ==
    IF S = {} THEN <<>>
    ELSE LET first == CHOOSE e \in S : \A o \in S : e.ino <= o.ino
         IN <<first>> \o Listing(S \ {first})

IterDir(fs, dir) == Listing({e \in fs : DirOf(e) = dir})

RGlob(fs, dir) == Listing({e \in fs : DirOf(e) = dir \/ StartsWith(DirOf(e), dir \o "/")})

IsDir(fs, dir) == \E e \in fs : DirOf(e) = dir \/ StartsWith(DirOf(e), dir \o "/")

(***************************************************************************)
(* File contents.  A JSON document is a record                             *)
(*   [valid, mcpServers, servers, command, env]                            *)
(* where mcpServers and servers are the server maps under those keys (in   *)
(* document order, empty when the key is absent), and command and env are  *)
(* the top-level "command" and "env" entries.  A server's config is such a *)
(* record too.  env is a sequence of <<key, value>> pairs with distinct    *)
(* keys.                                                                   *)
(***************************************************************************)
Config(command, env) ==
    [valid |-> TRUE, mcpServers |-> <<>>, servers |-> <<>>, command |-> command, env |-> env]

Wrapper(mcpServers, servers) ==
    [valid |-> TRUE, mcpServers |-> mcpServers, servers |-> servers, command |-> "", env |-> <<>>]

InvalidJson ==
    [valid |-> FALSE, mcpServers |-> <<>>, servers |-> <<>>, command |-> "", env |-> <<>>]

GithubServer ==
    [name |-> "github", config |-> Config("npx", << <<"GITHUB_TOKEN", "ghp_abc123">>, <<"DEBUG", "1">> >>)]

DbServer ==
    [name |-> "db", config |-> Config("uvx", << <<"DB_PASSWORD", "hunter2">> >>)]

FetchServer ==
    [name |-> "fetch", config |-> Config("npx", <<>>)]

\* A config that was templated before, beside a secret-shaped value under a
\* name that is no credential name.
VaultServer ==
    [name |-> "vault", config |-> Config("vault", << <<"API_KEY", "${API_KEY}">>, <<"REGION", "sk-east-1">> >>)]

\* A server whose name, a key of the JSON object, climbs out of a directory.
ClimbingServer ==
    [name |-> "../../evil", config |-> Config("sh", <<>>)]

UnreadableFiles == {"/work/p/.kiro/steering/locked.md"}

Readable(real) == real \notin UnreadableFiles

Content(real) ==
    CASE real = "/home/u/.cursor/mcp.json" -> Wrapper(<<GithubServer, DbServer>>, <<>>)
      [] real = "/home/u/broken.json" -> InvalidJson
      [] real = "/home/u2/mcp.json" -> Wrapper(<<DbServer>>, <<FetchServer>>)
      [] real = "/etc/mcp.json" -> Wrapper(<<DbServer>>, <<FetchServer>>)
      [] real = "/work/p/.devsync/mcp/local.json" -> GithubServer.config
      [] real = "/work/p/.claude/settings.local.json" -> Wrapper(<<VaultServer, DbServer>>, <<>>)
      [] real = "/work/p/.mcp.json" -> Wrapper(<<ClimbingServer, FetchServer>>, <<>>)
      [] OTHER -> Wrapper(<<GithubServer>>, <<FetchServer>>)

EnvKeys(config) == [i \in DOMAIN config.env |-> config.env[i][1]]

ServerMap(doc, json_key) == IF json_key = "servers" THEN doc.servers ELSE doc.mcpServers

(***************************************************************************)
(* ComponentDetector                                                       *)
(***************************************************************************)
VALID_SCOPES == {"project", "global", "all"}

INSTRUCTION_LOCATIONS == <<
    <<".claude/rules", "claude">>,
    <<".cursor/rules", "cursor">>,
    <<".windsurf/rules", "windsurf">>,
    <<".kiro/steering", "kiro">>,
    <<".clinerules", "cline">>,
    <<".roo/rules", "roo">>,
    <<".github/instructions", "copilot">> >>

SINGLE_INSTRUCTION_FILES == <<
    <<".github/copilot-instructions.md", "copilot">>,
    <<"AGENTS.md", "codex">>,
    <<"ANTEROOM.md", "anteroom">> >>

\* Path.suffix is the last dot-suffix of the name, so ".instructions.md" is
\* never the suffix of a file.
INSTRUCTION_EXTENSIONS == {".md", ".mdc", ".instructions.md"}

FilterOn(tf) == tf /= None /\ tf /= <<>>

\* The filter names compared as written: the fault C17 has to tell apart.
FilterAsWritten(tf) == Range(tf)

LowerFilter(tf) == {Lower(tf[i]) : i \in DOMAIN tf}

get_registry_entries(tf) ==
    SelectSeq(CAPABILITY_REGISTRY,
              LAMBDA cap : ~(FilterOn(tf) /\ cap.tool \notin LowerFilter(tf)))

\* The accumulator of one detection pass: the records found so far, the files
\* opened and the warnings logged.
Acc(items, seen, op, lg) == [items |-> items, seen |-> seen, opened |-> op, log |-> lg]

Fresh == Acc(<<>>, {}, <<>>, <<>>)

\* label is the path as the detector names it: the registry's path string for an
\* MCP config, the project-relative path otherwise.
\* by is the tool the read is made for.
Opened(acc, path, real, label, by) ==
    [acc EXCEPT !.opened = Append(@, [path |-> path, real |-> real, label |-> label, by |-> by])]

Warned(acc, kind, path) == [acc EXCEPT !.log = Append(@, [kind |-> kind, path |-> path])]

Found(acc, rec) == [acc EXCEPT !.items = Append(@, rec)]

(***************************************************************************)
(* _detect_instructions                                                    *)
(***************************************************************************)
FilteredOut(tf, ide_name) == FilterOn(tf) /\ ide_name \notin LowerFilter(tf)

InstructionName(e, dir_path, ide_name) ==
    IF ide_name = "copilot" /\ EndsWith(FileName(e), ".instructions.md")
    THEN LET rel_to_dir == SubSeq(AbsPath(e), Len(dir_path) + 2, Len(AbsPath(e)))
         IN Replace(Replace(rel_to_dir, ".instructions.md", ""), "/", "-")
    ELSE e.stem

ReadInstruction(acc, e, name, ide_name) ==
    IF Readable(e.real)
    THEN Found(Opened(acc, AbsPath(e), e.real, RelPath(e), ide_name),
               [name |-> name, file_path |-> AbsPath(e), relative_path |-> RelPath(e),
                source_ide |-> ide_name])
    ELSE Warned(acc, "read", AbsPath(e))

InstructionFile(acc, e, dir_path, ide_name) ==
    IF e.suffix \notin INSTRUCTION_EXTENSIONS THEN acc
    ELSE ReadInstruction(acc, e, InstructionName(e, dir_path, ide_name), ide_name)

InstructionDir(acc, entry, fs, tf) ==
    LET location == entry[1]
        ide_name == entry[2]
        dir_path == JoinPath(ProjectRoot, location)
    IN IF FilteredOut(tf, ide_name) \/ ~IsDir(fs, dir_path) THEN acc
       ELSE ForEach(LAMBDA a, e : InstructionFile(a, e, dir_path, ide_name), acc,
                    IF ide_name = "copilot" THEN RGlob(fs, dir_path) ELSE IterDir(fs, dir_path))

InstructionSingle(acc, entry, fs, tf) ==
    LET file_path == JoinPath(ProjectRoot, entry[1])
        ide_name == entry[2]
        here == {e \in fs : AbsPath(e) = file_path}
    IN IF FilteredOut(tf, ide_name) \/ here = {} THEN acc
       ELSE LET e == CHOOSE x \in here : TRUE
            IN ReadInstruction(acc, e, e.stem, ide_name)

detect_instructions(fs, tf) ==
    ForEach(LAMBDA a, entry : InstructionSingle(a, entry, fs, tf),
            ForEach(LAMBDA a, entry : InstructionDir(a, entry, fs, tf), Fresh, INSTRUCTION_LOCATIONS),
            SINGLE_INSTRUCTION_FILES)

(***************************************************************************)
(* _detect_mcp_servers                                                     *)
(***************************************************************************)
MCPServer(name, file_path, config, source, source_tool) ==
    [name |-> name, file_path |-> file_path, config |-> config, source |-> source,
     env_vars |-> EnvKeys(config), source_tool |-> source_tool]

\* str(expanded).startswith(str(Path.home()))
InsideHome(expanded) == StartsWith(expanded, Home)

AlreadySeen(seen_paths, resolved) == resolved \in seen_paths

EmitServers(acc, mcp_servers, config_path, source_label, tool_name) ==
    ForEach(LAMBDA a, server : Found(a, MCPServer(server.name, config_path, server.config,
                                                  source_label, tool_name)),
            acc, mcp_servers)

ParseConfig(acc, fs, p, json_key, tool_name) ==
    LET resolved == Resolve(fs, p.path)
    IN IF AlreadySeen(acc.seen, resolved) THEN acc
       ELSE IF ~Exists(fs, p.path) THEN acc
       ELSE LET acc1 == Opened([acc EXCEPT !.seen = @ \cup {resolved}], p.path, resolved, p.label, tool_name)
                doc == Content(resolved)
            IN IF ~doc.valid THEN Warned(acc1, "json", p.path)
               ELSE EmitServers(acc1, ServerMap(doc, json_key), p.path, p.label, tool_name)

ParsePaths(acc, fs, paths_to_check, json_key, tool_name) ==
    ForEach(LAMBDA a, p : ParseConfig(a, fs, p, json_key, tool_name), acc, paths_to_check)

ProjectPaths(cap, sc) ==
    IF sc \in {"project", "all"} /\ cap.mcp_project_config_path /= ""
    THEN << [path |-> JoinPath(ProjectRoot, cap.mcp_project_config_path),
             label |-> cap.mcp_project_config_path] >>
    ELSE <<>>

WantsGlobal(cap, sc) == sc \in {"global", "all"} /\ cap.mcp_config_path /= ""

McpTool(acc, fs, cap, sc) ==
    LET expanded == Resolve(fs, ExpandUser(cap.mcp_config_path))
    IN IF WantsGlobal(cap, sc) /\ ~InsideHome(expanded)
       THEN Warned(acc, "escape", cap.mcp_config_path)
       ELSE ParsePaths(acc, fs,
                ProjectPaths(cap, sc) \o
                    (IF WantsGlobal(cap, sc)
                     THEN << [path |-> expanded, label |-> cap.mcp_config_path] >>
                     ELSE <<>>),
                cap.mcp_servers_json_key, cap.tool)

McpRegistry(acc, fs, entries, sc) ==
    ForEach(LAMBDA a, cap : McpTool(a, fs, cap, sc), acc, entries)

McpFallbackFile(acc, e) ==
    LET doc == Content(e.real)
        read == Opened(acc, AbsPath(e), e.real, RelPath(e), "devsync")
    IN IF e.suffix /= ".json" THEN acc
       ELSE IF ~doc.valid THEN Warned(read, "read", AbsPath(e))
       ELSE Found(read, MCPServer(e.stem, AbsPath(e), doc, RelPath(e), "devsync"))

McpFallback(acc, listing) == ForEach(McpFallbackFile, acc, listing)

\* The pass, entered with the accumulator start.
detect_mcp_servers_from(start, fs, sc, tf) ==
    McpFallback(McpRegistry(start, fs, get_registry_entries(tf), sc),
                IterDir(fs, JoinPath(ProjectRoot, ".devsync/mcp")))

detect_mcp_servers(fs, sc, tf) == detect_mcp_servers_from(Fresh, fs, sc, tf)

(***************************************************************************)
(* _detect_hooks, _detect_commands                                         *)
(***************************************************************************)
infer_hook_type(filename) ==
    LET filename_lower == Lower(filename)
    IN IF Contains(filename_lower, "pretooluse") \/ Contains(filename_lower, "pre-tool") THEN "PreToolUse"
       ELSE IF Contains(filename_lower, "posttooluse") \/ Contains(filename_lower, "post-tool") THEN "PostToolUse"
       ELSE IF Contains(filename_lower, "notification") THEN "Notification"
       ELSE IF Contains(filename_lower, "stop") THEN "Stop"
       ELSE "Unknown"

infer_command_type(e) ==
    LET suffix == Lower(e.suffix)
    IN IF suffix \in {".sh", ".bash"} THEN "shell"
       ELSE IF suffix \in {".md", ".txt"} THEN "slash"
       ELSE "shell"

HookFile(acc, e, tool_name) ==
    Found(acc, [name |-> e.stem, file_path |-> AbsPath(e), relative_path |-> RelPath(e),
                hook_type |-> infer_hook_type(FileName(e)), source_tool |-> tool_name])

HooksOf(acc, cap, fs) ==
    LET hook_dir == JoinPath(ProjectRoot, cap.hooks_directory)
    IN IF cap.hooks_directory = "" \/ ~IsDir(fs, hook_dir) THEN acc
       ELSE ForEach(LAMBDA a, e : HookFile(a, e, cap.tool), acc, IterDir(fs, hook_dir))

detect_hooks(fs, tf) ==
    ForEach(LAMBDA a, cap : HooksOf(a, cap, fs), Fresh, get_registry_entries(tf))

CommandFile(acc, e, tool_name) ==
    Found(acc, [name |-> e.stem, file_path |-> AbsPath(e), relative_path |-> RelPath(e),
                command_type |-> infer_command_type(e), source_tool |-> tool_name])

CommandsOf(acc, cap, fs) ==
    LET cmd_dir == JoinPath(ProjectRoot, cap.commands_directory)
    IN IF cap.commands_directory = "" \/ ~IsDir(fs, cmd_dir) THEN acc
       ELSE ForEach(LAMBDA a, e : CommandFile(a, e, cap.tool), acc, IterDir(fs, cmd_dir))

detect_commands(fs, tf) ==
    ForEach(LAMBDA a, cap : CommandsOf(a, cap, fs), Fresh, get_registry_entries(tf))

(***************************************************************************)
(* _detect_skills, _detect_workflows                                       *)
(***************************************************************************)
\* The front-matter description of a file ("" when it has none).
Description(real) ==
    IF real = "/work/p/.claude/skills/review/SKILL.md" THEN "Review code" ELSE ""

\* The name of the immediate subdirectory of dir that holds e.
RECURSIVE ChildDir(_, _, _)
ChildDir(e, dir, k) ==
    IF k >= Len(e.parts) THEN None
    ELSE IF Join(<<RootDir(e.root)>> \o SubSeq(e.parts, 1, k), "/") = dir THEN e.parts[k + 1]
    ELSE ChildDir(e, dir, k + 1)

\* One step of the walk over skill_dir: the entry e stands for the immediate
\* subdirectory that holds it, which is visited once.
SkillDir(acc, e, fs, skill_dir, tool_name) ==
    LET name == ChildDir(e, skill_dir, 0)
        item == skill_dir \o "/" \o name
        upper == {x \in fs : DirOf(x) = item /\ FileName(x) = "SKILL.md"}
        lower == {x \in fs : DirOf(x) = item /\ FileName(x) = "Skill.md"}
        marker == IF upper /= {} THEN upper ELSE lower
        has_scripts == \/ \E x \in fs : ChildDir(x, item, 0) = "scripts"
                       \/ \E x \in fs : DirOf(x) = item \o "/scripts"
                       \/ \E x \in fs : DirOf(x) = item /\ x.suffix = ".sh"
        skill_md == CHOOSE x \in marker : TRUE
        visited == [acc EXCEPT !.seen = @ \cup {item}]
    IN IF name = None \/ item \in acc.seen THEN acc
       ELSE IF marker = {} THEN visited
       ELSE Found(Opened(visited, AbsPath(skill_md), skill_md.real, RelPath(skill_md), tool_name),
                  [name |-> name, dir_path |-> item,
                   relative_path |-> SubSeq(item, Len(ProjectRoot) + 2, Len(item)),
                   description |-> IF Readable(skill_md.real)
                                   THEN Description(skill_md.real) ELSE "",
                   has_scripts |-> has_scripts, source_tool |-> tool_name])

SkillsOf(acc, cap, fs) ==
    LET skill_dir == JoinPath(ProjectRoot, cap.skills_directory)
    IN IF cap.skills_directory = "" \/ ~IsDir(fs, skill_dir) THEN acc
       ELSE ForEach(LAMBDA a, e : SkillDir(a, e, fs, skill_dir, cap.tool),
                    [acc EXCEPT !.seen = {}], RGlob(fs, skill_dir))

detect_skills(fs, tf) ==
    ForEach(LAMBDA a, cap : SkillsOf(a, cap, fs), Fresh, get_registry_entries(tf))

WorkflowFile(acc, e, tool_name) ==
    IF Lower(e.suffix) \notin {".md", ".yaml", ".yml"} THEN acc
    ELSE Found(Opened(acc, AbsPath(e), e.real, RelPath(e), tool_name),
               [name |-> e.stem, file_path |-> AbsPath(e), relative_path |-> RelPath(e),
                description |-> IF Readable(e.real) THEN Description(e.real) ELSE "",
                source_tool |-> tool_name])

WorkflowsOf(acc, cap, fs) ==
    LET workflow_dir == JoinPath(ProjectRoot, cap.workflows_directory)
    IN IF cap.workflows_directory = "" \/ ~IsDir(fs, workflow_dir) THEN acc
       ELSE ForEach(LAMBDA a, e : WorkflowFile(a, e, cap.tool), acc, RGlob(fs, workflow_dir))

detect_workflows(fs, tf) ==
    ForEach(LAMBDA a, cap : WorkflowsOf(a, cap, fs), Fresh, get_registry_entries(tf))

(***************************************************************************)
(* _detect_memory_files, _detect_resources                                 *)
(***************************************************************************)
\* memory_file_names: file name -> tool, the last registry entry that names it.
MemoryName(names, cap) ==
    LET old == {i \in DOMAIN names : names[i][1] = cap.memory_file_name}
    IN IF cap.memory_file_name = "" THEN names
       ELSE IF old = {} THEN Append(names, <<cap.memory_file_name, cap.tool>>)
       ELSE [i \in DOMAIN names |->
                IF i \in old THEN <<cap.memory_file_name, cap.tool>> ELSE names[i]]

MemoryNames(entries) == ForEach(MemoryName, <<>>, entries)

MemoryStem(mem_file_name) ==
    IF EndsWith(mem_file_name, ".md") THEN SubSeq(mem_file_name, 1, Len(mem_file_name) - 3)
    ELSE mem_file_name

Skipped(e) ==
    \/ \E i \in DOMAIN e.parts :
          StartsWith(e.parts[i], ".") /\ e.parts[i] \notin {".claude", ".github"}
    \/ \E p \in Range(e.parts) \cup {FileName(e)} :
          p \in {"node_modules", "venv", ".venv", "__pycache__", "dist", "build"}

ReadMemory(acc, e, name, is_root, tool_name) ==
    IF Readable(e.real)
    THEN Found(Opened(acc, AbsPath(e), e.real, RelPath(e), tool_name),
               [name |-> name, file_path |-> AbsPath(e), relative_path |-> RelPath(e),
                is_root |-> is_root, source_tool |-> tool_name])
    ELSE Warned(acc, "read", AbsPath(e))

MemoryNested(acc, e, stem, tool_name) ==
    LET seen == [acc EXCEPT !.seen = @ \cup {AbsPath(e)}]
    IN IF e.parts = <<>> \/ AbsPath(e) \in acc.seen THEN acc
       ELSE IF Skipped(e) THEN seen
       ELSE ReadMemory(seen, e, Join(e.parts, "-") \o "-" \o stem, FALSE, tool_name)

MemoryFiles(acc, entry, fs) ==
    LET mem_file_name == entry[1]
        tool_name == entry[2]
        stem == MemoryStem(mem_file_name)
        root_memory == JoinPath(ProjectRoot, mem_file_name)
        here == {e \in fs : AbsPath(e) = root_memory}
        acc1 == IF here = {} \/ root_memory \in acc.seen THEN acc
                ELSE ReadMemory([acc EXCEPT !.seen = @ \cup {root_memory}],
                                CHOOSE e \in here : TRUE, stem, TRUE, tool_name)
        found == Listing({e \in fs : e.root = "project" /\ FileName(e) = mem_file_name})
    IN ForEach(LAMBDA a, e : MemoryNested(a, e, stem, tool_name), acc1, found)

detect_memory_files(fs, tf) ==
    ForEach(LAMBDA a, entry : MemoryFiles(a, entry, fs), Fresh,
            MemoryNames(get_registry_entries(tf)))

RESOURCE_LOCATIONS == <<".devsync/resources">>

MAX_RESOURCE_SIZE == 209715200

WARN_RESOURCE_SIZE == 52428800

Size(real) == IF real = "/work/p/.devsync/resources/dump.bin" THEN 209715201 ELSE 2048

\* calculate_file_checksum: the hex digest of the file's content.
Checksum(real) == "sha:" \o real

ResourceFile(acc, e) ==
    LET size == Size(e.real)
        warned == IF size > WARN_RESOURCE_SIZE THEN Warned(acc, "large", AbsPath(e)) ELSE acc
    IN IF size > MAX_RESOURCE_SIZE THEN Warned(acc, "max size", AbsPath(e))
       ELSE IF ~Readable(e.real) THEN Warned(warned, "read", AbsPath(e))
       ELSE Found(Opened(warned, AbsPath(e), e.real, RelPath(e), "devsync"),
                  [name |-> e.stem, file_path |-> AbsPath(e), relative_path |-> RelPath(e),
                   size |-> size, checksum |-> Checksum(e.real)])

ResourcesIn(acc, location, fs) ==
    LET res_dir == JoinPath(ProjectRoot, location)
    IN IF ~IsDir(fs, res_dir) THEN acc ELSE ForEach(ResourceFile, acc, RGlob(fs, res_dir))

detect_resources(fs) ==
    ForEach(LAMBDA a, location : ResourcesIn(a, location, fs), Fresh, RESOURCE_LOCATIONS)

(***************************************************************************)
(* detect_all                                                              *)
(***************************************************************************)
\* Each pass returns its own list; the files opened and the warnings logged
\* accumulate over the passes in call order.
DetectionResult(i, m, h, c, s, w, mf, r) ==
    [instructions |-> i, mcp_servers |-> m, hooks |-> h, commands |-> c, skills |-> s,
     workflows |-> w, memory_files |-> mf, resources |-> r, warnings |-> <<>>]

total_count(d) ==
    Len(d.instructions) + Len(d.mcp_servers) + Len(d.hooks) + Len(d.commands)
    + Len(d.skills) + Len(d.workflows) + Len(d.memory_files) + Len(d.resources)

\* A detector that kept seen_paths from one call to the next: the fault C18
\* has to tell apart.
LocalsKeepSeen(left) == [Fresh EXCEPT !.seen = left.seen]

\* servers and seen_paths are locals of _detect_mcp_servers: a call starts
\* with both empty, whatever the call before it left in them.
Locals(left) == Fresh

detect_all_from(start, fs, sc, tf) ==
    LET a1 == detect_instructions(fs, tf)
        a2 == detect_mcp_servers_from(start, fs, sc, tf)
        a3 == detect_hooks(fs, tf)
        a4 == detect_commands(fs, tf)
        a5 == detect_skills(fs, tf)
        a6 == detect_workflows(fs, tf)
        a7 == detect_memory_files(fs, tf)
        a8 == detect_resources(fs)
    IN [result |-> DetectionResult(a1.items, a2.items, a3.items, a4.items,
                                   a5.items, a6.items, a7.items, a8.items),
        opened |-> a1.opened \o a2.opened \o a3.opened \o a4.opened
                   \o a5.opened \o a6.opened \o a7.opened \o a8.opened,
        log |-> a1.log \o a2.log \o a3.log \o a4.log
                \o a5.log \o a6.log \o a7.log \o a8.log]

detect_all(fs, sc, tf) == detect_all_from(Fresh, fs, sc, tf)

(***************************************************************************)
(* filter_detection_result                                                 *)
(***************************************************************************)
\* A map without the alias spellings, and a tool match that compares the
\* names as written: the faults C15 and C16 have to tell apart.
ComponentTypeMapWithoutAliases ==
    [instructions |-> "instructions", mcp_servers |-> "mcp_servers",
     hooks |-> "hooks", commands |-> "commands", skills |-> "skills",
     workflows |-> "workflows", memory_files |-> "memory_files",
     resources |-> "resources"]

filter_by_tool_as_written(items, tf, tool_attr) ==
    IF ~FilterOn(tf) THEN items
    ELSE SelectSeq(items, LAMBDA item : item[tool_attr] \in Range(tf))

COMPONENT_TYPE_MAP ==
    [rules |-> "instructions", instructions |-> "instructions",
     mcp |-> "mcp_servers", mcp_servers |-> "mcp_servers",
     hooks |-> "hooks", commands |-> "commands", skills |-> "skills",
     workflows |-> "workflows",
     memory |-> "memory_files", memory_files |-> "memory_files",
     resources |-> "resources"]

\* allowed_fields: <<>> for None, <<the set of allowed lists>> otherwise.
AllowedFields(cf) ==
    IF ~FilterOn(cf) THEN <<>>
    ELSE << {COMPONENT_TYPE_MAP[Lower(cf[i])] :
                i \in {j \in DOMAIN cf : Lower(cf[j]) \in DOMAIN COMPONENT_TYPE_MAP}} >>

filter_by_tool(items, tf, tool_attr) ==
    IF ~FilterOn(tf) THEN items
    ELSE SelectSeq(items, LAMBDA item : Lower(item[tool_attr]) \in LowerFilter(tf))

get_field(allowed_fields, field_name, items, tf, tool_attr) ==
    IF allowed_fields /= <<>> /\ field_name \notin allowed_fields[1] THEN <<>>
    ELSE filter_by_tool(items, tf, tool_attr)

filter_detection_result(d, tf, cf) ==
    LET allowed_fields == AllowedFields(cf)
    IN [instructions |-> get_field(allowed_fields, "instructions", d.instructions, tf, "source_ide"),
        mcp_servers |-> get_field(allowed_fields, "mcp_servers", d.mcp_servers, tf, "source_tool"),
        hooks |-> get_field(allowed_fields, "hooks", d.hooks, tf, "source_tool"),
        commands |-> get_field(allowed_fields, "commands", d.commands, tf, "source_tool"),
        skills |-> get_field(allowed_fields, "skills", d.skills, tf, "source_tool"),
        workflows |-> get_field(allowed_fields, "workflows", d.workflows, tf, "source_tool"),
        memory_files |-> get_field(allowed_fields, "memory_files", d.memory_files, tf, "source_tool"),
        resources |-> IF allowed_fields = <<>> \/ "resources" \in allowed_fields[1]
                      THEN d.resources ELSE <<>>,
        warnings |-> d.warnings]

(***************************************************************************)
(* Filesystem snapshots the detector is run on                             *)
(***************************************************************************)
MaxFiles == 2

Link(root, parts, stem, suffix, ino, target) ==
    LET dir == Join(<<RootDir(root)>> \o parts, "/")
    IN [root |-> root, parts |-> parts, stem |-> stem, suffix |-> suffix, ino |-> ino,
        dir |-> dir, path |-> dir \o "/" \o stem \o suffix, real |-> target]

File(root, parts, stem, suffix, ino) ==
    LET self == Link(root, parts, stem, suffix, ino, None)
    IN [self EXCEPT !.real = self.path]

\* Where a symlinked config file may point: inside the home directory, to a
\* directory beside it whose name starts with the home directory's name, and
\* outside it.
LinkTargets == {"/home/u/.cursor/mcp.json", "/home/u/broken.json", "/home/u2/mcp.json", "/etc/mcp.json"}

ConfigFiles == {
    File("project", <<".cursor">>, "mcp", ".json", 1),
    File("home", <<".cursor">>, "mcp", ".json", 2),
    File("project", <<".claude">>, "settings.local", ".json", 3),
    File("home", <<".gemini">>, "settings", ".json", 4),
    File("project", <<>>, ".mcp", ".json", 5),
    File("project", <<".vscode">>, "mcp", ".json", 6),
    File("project", <<".devsync", "mcp">>, "local", ".json", 7) }

PlainFiles == {
    File("project", <<".claude", "rules">>, "style", ".md", 8),
    File("project", <<".amazonq", "rules">>, "guide", ".md", 9),
    File("project", <<".kiro", "steering">>, "locked", ".md", 10),
    File("project", <<".github", "instructions", "py">>, "lint.instructions", ".md", 11),
    File("project", <<".cursor", "rules">>, "notes", ".md", 12),
    File("project", <<".claude", "hooks">>, "pre-tool", ".sh", 13),
    File("project", <<".claude", "commands">>, "build", ".sh", 14),
    File("project", <<".claude", "skills", "review">>, "SKILL", ".md", 15),
    File("project", <<".windsurf", "workflows">>, "deploy", ".md", 16),
    File("project", <<>>, "CLAUDE", ".md", 17),
    File("project", <<"docs">>, "CLAUDE", ".md", 18),
    File("project", <<"docs", "api">>, "CLAUDE", ".md", 21),
    File("project", <<"docs-api">>, "CLAUDE", ".md", 22),
    File("project", <<".devsync", "resources">>, "a", ".txt", 19),
    File("project", <<".devsync", "resources">>, "dump", ".bin", 20),
    File("project", <<".devsync", "resources", "sub">>, "a", ".txt", 23),
    File("project", <<".cursor", "rules">>, "style", ".md", 24),
    File("project", <<".windsurf", "rules">>, "flow", ".md", 25) }

Catalog ==
    ConfigFiles \cup PlainFiles \cup
    {Link(e.root, e.parts, e.stem, e.suffix, e.ino, t) : e \in ConfigFiles, t \in LinkTargets}

RECURSIVE FilesUpTo(_)
FilesUpTo(n) ==
    IF n = 0 THEN {{}}
    ELSE LET smaller == FilesUpTo(n - 1)
         IN smaller \cup
            {fs \cup {e} : fs \in smaller, e \in Catalog}

Filesystems ==
    {fs \in FilesUpTo(MaxFiles) : \A a, b \in fs : a.ino = b.ino => a = b}

ToolFilters == {None, <<"Claude">>, <<"CURSOR", "nobody">>, <<"winsurf">>}

\* The scope argument of the constructor: the valid values and two others.
Scopes == VALID_SCOPES \cup {"workspace", "Project"}

(***************************************************************************)
(* The secret detector (aiconfigkit.core.secret_detector), from its        *)
(* contract: detect(key, value) grades a credential none < low < medium <  *)
(* high from the key name and the value's shape; template replaces every   *)
(* environment value graded medium or higher by a placeholder that embeds  *)
(* the key name; a placeholder matches no secret heuristic.                *)
(***************************************************************************)
Confidence == <<"none", "low", "medium", "high">>

Rank(confidence) == CHOOSE i \in DOMAIN Confidence : Confidence[i] = confidence

CredentialWords == {"TOKEN", "KEY", "SECRET", "PASSWORD"}

Placeholder(key) == "${" \o key \o "}"

IsPlaceholder(value) == StartsWith(value, "${") /\ EndsWith(value, "}")

SecretShaped(value) == StartsWith(value, "ghp_") \/ StartsWith(value, "sk-")

\* A detector that grades by key name and value shape alone, placeholders
\* included: the fault C10 has to tell apart.
detect_placeholders_too(key, value) ==
    IF \E word \in CredentialWords : Contains(key, word)
    THEN (IF SecretShaped(value) THEN "high" ELSE "medium")
    ELSE IF SecretShaped(value) THEN "low"
    ELSE "none"

detect(key, value) ==
    IF IsPlaceholder(value) THEN "none"
    ELSE IF \E word \in CredentialWords : Contains(key, word)
         THEN (IF SecretShaped(value) THEN "high" ELSE "medium")
    ELSE IF SecretShaped(value) THEN "low"
    ELSE "none"

IsSecret(key, value) == Rank(detect(key, value)) >= Rank("medium")

template_secrets_in_config(config) ==
    LET env == config.env
        secret == {i \in DOMAIN env : IsSecret(env[i][1], env[i][2])}
    IN [config |-> [config EXCEPT !.env = [i \in DOMAIN env |->
                        IF i \in secret THEN <<env[i][1], Placeholder(env[i][1])>> ELSE env[i]]],
        keys |-> EnvKeys([env |-> SelectSeq(env, LAMBDA pair : IsSecret(pair[1], pair[2]))])]

(***************************************************************************)
(* PackageCreator: the package directory                                   *)
(***************************************************************************)
PackageName == "demo"

package_dir == "/out/package-" \o PackageName

NoConfig == Config("", <<>>)

\* A file of the package directory, named by its path below that directory.
\* src is the file it was copied from, config the JSON document written to it.
Entry(path, kind, src, config) == [path |-> path, kind |-> kind, src |-> src, config |-> config]

\* The output directory: whether package_dir exists, and the files below it.
NoPackage == [exists |-> FALSE, entries |-> {}, manifest |-> <<>>, document |-> <<>>]

OldPackage ==
    [exists |-> TRUE, entries |-> {Entry("README.md", "old", "", NoConfig)}, manifest |-> <<>>,
     document |-> <<>>]

\* The last segment of a path.
Basename(path) ==
    LET slashes == {i \in 1..Len(path) : SubSeq(path, i, i) = "/"}
    IN IF slashes = {} THEN path
       ELSE SubSeq(path, (CHOOSE i \in slashes : \A j \in slashes : j <= i) + 1, Len(path))

Parent(path) == SubSeq(path, 1, Len(path) - Len(Basename(path)) - 1)

Names(components) == Range(components)

\* PackageComponents.total_count; a DetectionResult counts the same way.
components_total(components) == total_count(components)

(***************************************************************************)
(* PackageCreator._copy_component_files                                    *)
(***************************************************************************)
\* entries: the files written so far; warnings: the list returned; raised: the
\* message of an exception that left the method ("" when none did).
Copying(entries, warnings, raised) == [entries |-> entries, warnings |-> warnings, raised |-> raised]

Write(st, entry) ==
    [st EXCEPT !.entries = {x \in @ : x.path /= entry.path} \cup {entry}]

CopyError(fs, src_path) ==
    IF \E e \in fs : AbsPath(e) = src_path THEN "Permission denied" ELSE "No such file or directory"

\* A copy failure that leaves the method as an exception: the fault C9 has to
\* tell apart.
CopyAborts(st, kind, name, e) == [st EXCEPT !.raised = e]

CopyFailed(st, kind, name, e) ==
    [st EXCEPT !.warnings = Append(@, "Failed to copy " \o kind \o " " \o name \o ": " \o e)]

\* try: shutil.copy2(src_path, dest_path) except Exception: warnings.append(...)
copy2(st, fs, src_path, dest_path, kind, name) ==
    IF \E e \in fs : AbsPath(e) = src_path /\ Readable(e.real)
    THEN Write(st, Entry(dest_path, "copy", src_path, NoConfig))
    ELSE CopyFailed(st, kind, name, CopyError(fs, src_path))

\* One of the loops over a kind of detected records: records that are not
\* selected by name are passed over.
CopyKind(st, fs, records, names, kind, Dest(_)) ==
    ForEach(LAMBDA s, rec : IF rec.name \notin names \/ s.raised /= "" THEN s
                            ELSE copy2(s, fs, rec.file_path, Dest(rec), kind, rec.name),
            st, records)

\* try: shutil.copytree(src_path, dest_path): the destination must not exist;
\* the files that can be read are copied, and any failure is reported.
copytree(st, fs, skill) ==
    LET dest_path == "skills/" \o skill.name
        tree == {e \in fs : DirOf(e) = skill.dir_path \/ StartsWith(DirOf(e), skill.dir_path \o "/")}
        taken == \E x \in st.entries : StartsWith(x.path, dest_path \o "/")
        readable == {e \in tree : Readable(e.real)}
        copies == {Entry(dest_path \o SubSeq(AbsPath(e), Len(skill.dir_path) + 1, Len(AbsPath(e))),
                         "copy", AbsPath(e), NoConfig) : e \in readable}
        copied == [st EXCEPT !.entries = @ \cup copies]
    IN IF taken THEN CopyFailed(st, "skill", skill.name, "File exists")
       ELSE IF tree = {} THEN CopyFailed(st, "skill", skill.name, "No such file or directory")
       ELSE IF readable /= tree THEN CopyFailed(copied, "skill", skill.name, "Permission denied")
       ELSE copied

CopySkills(st, fs, records, names) ==
    ForEach(LAMBDA s, skill : IF skill.name \notin names \/ s.raised /= "" THEN s
                              ELSE copytree(s, fs, skill),
            st, records)

MemoryDest(mem) ==
    IF mem.is_root THEN "memory_files/CLAUDE.md" ELSE "memory_files/" \o mem.relative_path

\* dest_path.parent.mkdir(parents=True, exist_ok=True), outside the try: it
\* raises when a file stands where a directory is to be made.
MkdirRaises(st, dir) ==
    \E x \in st.entries : x.path = dir \/ StartsWith(dir, x.path \o "/")

CopyMemory(st, fs, records, names) ==
    ForEach(LAMBDA s, mem :
                IF mem.name \notin names \/ s.raised /= "" THEN s
                ELSE IF ~mem.is_root /\ MkdirRaises(s, Parent(MemoryDest(mem)))
                THEN [s EXCEPT !.raised = "File exists: " \o Parent(MemoryDest(mem))]
                ELSE copy2(s, fs, mem.file_path, MemoryDest(mem), "memory file", mem.name),
            st, records)

copy_component_files(fs, detection_result, components) ==
    LET s0 == Copying({}, <<>>, "")
        s1 == CopyKind(s0, fs, detection_result.instructions, Names(components.instructions),
                       "instruction", LAMBDA r : "instructions/" \o r.name \o ".md")
        s2 == CopyKind(s1, fs, detection_result.hooks, Names(components.hooks),
                       "hook", LAMBDA r : "hooks/" \o Basename(r.file_path))
        s3 == CopyKind(s2, fs, detection_result.commands, Names(components.commands),
                       "command", LAMBDA r : "commands/" \o Basename(r.file_path))
        s4 == CopyKind(s3, fs, detection_result.resources, Names(components.resources),
                       "resource", LAMBDA r : "resources/" \o Basename(r.file_path))
        s5 == CopySkills(s4, fs, detection_result.skills, Names(components.skills))
        s6 == CopyKind(s5, fs, detection_result.workflows, Names(components.workflows),
                       "workflow", LAMBDA r : "workflows/" \o Basename(r.file_path))
    IN CopyMemory(s6, fs, detection_result.memory_files, Names(components.memory_files))

(***************************************************************************)
(* PackageCreator._process_mcp_servers, _update_component_paths, create    *)
(***************************************************************************)
\* Writing the detected config as it is: the fault C1 has to tell apart.
Untemplated(server, scrub) == [config |-> server.config, keys |-> <<>>]

\* The (config, templated keys) written for one detected server.
Templated(server, scrub) ==
    IF scrub THEN template_secrets_in_config(server.config)
    ELSE [config |-> server.config, keys |-> <<>>]

ProcessServer(st, server, scrub) ==
    LET templated == Templated(server, scrub)
        written == Write(st, Entry("mcp/" \o server.name \o ".json", "mcp", "", templated.config))
    IN [written EXCEPT !.total_secrets = @ + Len(templated.keys)]

process_mcp_servers(entries, detected_servers, scrub) ==
    ForEach(LAMBDA st, server : ProcessServer(st, server, scrub),
            [entries |-> entries, warnings |-> <<>>, total_secrets |-> 0],
            detected_servers)

\* {x.name: x for x in records}.get(name): the last record of that name.
Lookup(records, name) ==
    LET at == {i \in DOMAIN records : records[i].name = name}
    IN IF at = {} THEN <<>> ELSE <<records[CHOOSE i \in at : \A j \in at : j <= i]>>

Credentials(detected, scrub) ==
    IF detected = <<>> \/ ~scrub THEN <<>>
    ELSE SelectSeq(detected[1].env_vars,
                   LAMBDA env_var : detect("placeholder", env_var) \in {"high", "medium"})

Component(name, file, credentials) == [name |-> name, file |-> file, credentials |-> credentials]

\* The file a component of a kind is listed under: the detected record's file
\* name when the name was detected, the name with a default suffix otherwise.
UpdatedFile(kind_dir, records, name, suffix) ==
    LET found == Lookup(records, name)
    IN kind_dir \o "/" \o (IF found = <<>> THEN name \o suffix ELSE Basename(found[1].file_path))

UpdatedMemoryFile(records, name) ==
    LET found == Lookup(records, name)
    IN IF found = <<>> THEN "memory_files/" \o name \o ".md" ELSE MemoryDest(found[1])

update_component_paths(components, detection_result, scrub) ==
    [instructions |-> [i \in DOMAIN components.instructions |->
         Component(components.instructions[i], "instructions/" \o components.instructions[i] \o ".md", <<>>)],
     mcp_servers |-> [i \in DOMAIN components.mcp_servers |->
         Component(components.mcp_servers[i], "mcp/" \o components.mcp_servers[i] \o ".json",
                   Credentials(Lookup(detection_result.mcp_servers, components.mcp_servers[i]), scrub))],
     hooks |-> [i \in DOMAIN components.hooks |->
         Component(components.hooks[i],
                   UpdatedFile("hooks", detection_result.hooks, components.hooks[i], ".sh"), <<>>)],
     commands |-> [i \in DOMAIN components.commands |->
         Component(components.commands[i],
                   UpdatedFile("commands", detection_result.commands, components.commands[i], ".sh"), <<>>)],
     skills |-> [i \in DOMAIN components.skills |->
         Component(components.skills[i], "skills/" \o components.skills[i], <<>>)],
     workflows |-> [i \in DOMAIN components.workflows |->
         Component(components.workflows[i],
                   UpdatedFile("workflows", detection_result.workflows, components.workflows[i], ".md"), <<>>)],
     memory_files |-> [i \in DOMAIN components.memory_files |->
         Component(components.memory_files[i],
                   UpdatedMemoryFile(detection_result.memory_files, components.memory_files[i]), <<>>)],
     resources |-> [i \in DOMAIN components.resources |->
         Component(components.resources[i],
                   UpdatedFile("resources", detection_result.resources, components.resources[i], ""), <<>>)]]

NamesOf(records) == [i \in DOMAIN records |-> records[i].name]

\* ComponentDetector.to_package_components: one component per detected record.
to_package_components(d) ==
    [instructions |-> NamesOf(d.instructions), mcp_servers |-> NamesOf(d.mcp_servers),
     hooks |-> NamesOf(d.hooks), commands |-> NamesOf(d.commands), skills |-> NamesOf(d.skills),
     workflows |-> NamesOf(d.workflows), memory_files |-> NamesOf(d.memory_files),
     resources |-> NamesOf(d.resources)]

(***************************************************************************)
(* _generate_manifest: the document written to ai-config-kit-package.yaml. *)
(* A component carries the description and the extras that                 *)
(* to_package_components gave it from the detected record of its name.     *)
(***************************************************************************)
Get(data, key, default) == IF key \in DOMAIN data THEN data[key] ELSE default

Describe(kind, found) ==
    IF found = <<>> THEN ""
    ELSE CASE kind = "instructions" -> "Instruction from " \o found[1].source_ide
           [] kind = "mcp_servers" -> "MCP server from " \o found[1].source
           [] kind = "hooks" -> found[1].hook_type \o " hook"
           [] kind = "commands" -> found[1].command_type \o " command"
           [] kind = "resources" -> "Resource file"
           [] kind = "skills" -> IF found[1].description /= "" THEN found[1].description ELSE "Skill"
           [] kind = "workflows" -> IF found[1].description /= "" THEN found[1].description ELSE "Workflow"
           [] OTHER -> IF found[1].is_root THEN "Root memory file" ELSE "Memory file"

Sha256(checksum) == IF StartsWith(checksum, "sha256:") THEN checksum ELSE "sha256:" \o checksum

ManifestEntry(kind, component, d) ==
    LET found == Lookup(d[kind], component.name)
        common == [name |-> component.name, file |-> component.file,
                   description |-> Describe(kind, found)]
    IN CASE kind = "mcp_servers" ->
              [name |-> common.name, file |-> common.file, description |-> common.description,
               credentials |-> [i \in DOMAIN component.credentials |->
                                   [name |-> component.credentials[i],
                                    description |-> "Environment variable for " \o component.name,
                                    required |-> TRUE]]]
         [] kind = "hooks" ->
              [name |-> common.name, file |-> common.file, description |-> common.description,
               hook_type |-> IF found = <<>> THEN "" ELSE found[1].hook_type]
         [] kind = "commands" ->
              [name |-> common.name, file |-> common.file, description |-> common.description,
               command_type |-> IF found = <<>> THEN "" ELSE found[1].command_type]
         [] kind = "resources" ->
              [name |-> common.name, file |-> common.file, description |-> common.description,
               install_path |-> common.file,
               checksum |-> Sha256(IF found = <<>> THEN "" ELSE found[1].checksum),
               size |-> IF found = <<>> THEN 0 ELSE found[1].size]
         [] OTHER -> common

\* The "components" mapping of the manifest; a kind without components has
\* no key in it, which reads back as no entries.
generate_manifest(components, d) ==
    [name |-> PackageName,
     components |-> [kind \in DOMAIN components |->
                        [i \in DOMAIN components[kind] |->
                            ManifestEntry(kind, components[kind][i], d)]]]

(***************************************************************************)
(* devsync/core/package_manifest_v2.py: parse_manifest                     *)
(***************************************************************************)
V1_MANIFEST_FILE == "ai-config-kit-package.yaml"

V2_MANIFEST_FILE == "devsync-package.yaml"

ComponentRef_from_dict(data) ==
    [name |-> data.name, file |-> data.file,
     description |-> Get(data, "description", ""),
     tags |-> Get(data, "tags", <<>>),
     hook_type |-> Get(data, "hook_type", None),
     command_type |-> Get(data, "command_type", None)]

parse_components(components_data) ==
    [kind \in DOMAIN components_data \ {"mcp_servers"} |->
        [i \in DOMAIN components_data[kind] |-> ComponentRef_from_dict(components_data[kind][i])]]

\* CredentialSpec.from_dict is taken to keep the three keys of a credential.
MCPDeclaration(m) ==
    [name |-> m.name, description |-> Get(m, "description", ""),
     command |-> Get(m, "command", ""), args |-> Get(m, "args", <<>>),
     credentials |-> Get(m, "credentials", <<>>)]

parse_v1(data) ==
    [found |-> TRUE, format_version |-> "1.0", name |-> Get(data, "name", ""),
     mcp_servers |-> [i \in DOMAIN data.components.mcp_servers |->
                         MCPDeclaration(data.components.mcp_servers[i])],
     components |-> parse_components(data.components)]

\* found is FALSE for the FileNotFoundError raised when the directory holds
\* no manifest file.
NotParsed ==
    [found |-> FALSE, format_version |-> "", name |-> "", mcp_servers |-> <<>>,
     components |-> [kind \in {} |-> <<>>]]

detect_manifest_format(out) ==
    IF \E x \in out.entries : x.path = V2_MANIFEST_FILE THEN "v2"
    ELSE IF \E x \in out.entries : x.path = V1_MANIFEST_FILE THEN "v1"
    ELSE None

parse_manifest(out) ==
    IF detect_manifest_format(out) = "v1" /\ out.document /= <<>>
    THEN parse_v1(out.document[1])
    ELSE NotParsed

PackageCreationResult(success, included, secrets, warnings, error_message) ==
    [success |-> success, components_included |-> included, secrets_templated |-> secrets,
     warnings |-> warnings, error_message |-> error_message,
     package_path |-> IF success THEN package_dir ELSE "",
     manifest_path |-> IF success THEN package_dir \o "/ai-config-kit-package.yaml" ELSE ""]

Failure(error_message) == PackageCreationResult(FALSE, 0, 0, <<>>, error_message)

\* Skipping the empty-selection check, and skipping the existence check: the
\* faults C3 and C4 have to tell apart.
NeverEmpty(components) == FALSE

NeverExists(out) == FALSE

NothingToPackage(components) == components_total(components) = 0

PackageDirExists(out) == out.exists

\* selected_components is <<>> for None and <<components>> otherwise; the
\* manifest of the package is <<>> until it is written.
create(fs, out, detection_result, selected_components, scrub) ==
    LET components == IF selected_components = <<>>
                      THEN to_package_components(detection_result)
                      ELSE selected_components[1]
        copied == copy_component_files(fs, detection_result, components)
        processed == process_mcp_servers(copied.entries, detection_result.mcp_servers, scrub)
        final_components == update_component_paths(components, detection_result, scrub)
        written == processed.entries
                   \cup {Entry("ai-config-kit-package.yaml", "manifest", "", NoConfig),
                         Entry("README.md", "readme", "", NoConfig)}
    IN IF NothingToPackage(components)
       THEN [out |-> out, res |-> Failure("No components to package")]
       ELSE IF PackageDirExists(out)
       THEN [out |-> out, res |-> Failure("Package directory already exists: " \o package_dir)]
       ELSE IF copied.raised /= ""
       THEN [out |-> [exists |-> TRUE, entries |-> copied.entries, manifest |-> <<>>,
                      document |-> <<>>],
             res |-> Failure(copied.raised)]
       ELSE [out |-> [exists |-> TRUE, entries |-> written, manifest |-> <<final_components>>,
                      document |-> <<generate_manifest(final_components, detection_result)>>],
             res |-> PackageCreationResult(TRUE, components_total(final_components),
                                           processed.total_secrets,
                                           copied.warnings \o processed.warnings, "")]

(***************************************************************************)
(* The detector run                                                        *)
(***************************************************************************)
\* The values the result variables hold before the call returns.
NoDetection == DetectionResult(<<>>, <<>>, <<>>, <<>>, <<>>, <<>>, <<>>, <<>>)

NotReturned == PackageCreationResult(FALSE, 0, 0, <<>>, "")

InitDetect ==
    /\ files \in Filesystems
    /\ scope \in Scopes
    /\ tool_filter \in ToolFilters
    /\ result = NoDetection
    /\ opened = <<>>
    /\ log = <<>>
    /\ pc = "new"

IdleFilter ==
    /\ component_filter = None
    /\ filtered = NoDetection

IdleParse == parsed = NotParsed

\* No command is running and AGENTS.md is empty.
NoArgs == [command |-> None]

NotExited == <<>>

IdleCommand ==
    /\ args = NoArgs
    /\ exit_code = NotExited
    /\ agents = <<>>

IdleCreate ==
    /\ det = NoDetection
    /\ selected = <<>>
    /\ scrub_secrets = TRUE
    /\ outfs = NoPackage
    /\ cres = NotReturned

Init == InitDetect /\ IdleCreate /\ IdleFilter /\ IdleParse /\ IdleCommand

\* A constructor that accepts any scope: the fault C19 has to tell apart.
AnyScope(sc) == TRUE

ValidScope(sc) == sc \in VALID_SCOPES

\* ComponentDetector(project_root, scope, tool_filter): raises ValueError on
\* a scope that is not valid, and stores its arguments otherwise.
Construct ==
    /\ pc = "new"
    /\ pc' = IF ValidScope(scope) THEN "ready" ELSE "raised"
    /\ UNCHANGED <<args, exit_code, agents>>
    /\ UNCHANGED <<files, scope, tool_filter, result, opened, log, det, selected, scrub_secrets,
                   outfs, cres, component_filter, filtered, parsed>>

DetectAll ==
    /\ pc = "ready"
    /\ pc' = "done"
    /\ LET out == detect_all(files, scope, tool_filter)
       IN /\ result' = out.result
          /\ opened' = out.opened
          /\ log' = out.log
    /\ UNCHANGED <<args, exit_code, agents>>
    /\ UNCHANGED <<files, scope, tool_filter, det, selected, scrub_secrets, outfs, cres,
                   component_filter, filtered, parsed>>

\* A second detect_all() on the same detector and the same filesystem; its
\* result is held in det.
DetectAgain ==
    /\ pc = "done"
    /\ pc' = "twice"
    /\ LET left == Acc(result.mcp_servers, {opened[i].real : i \in DOMAIN opened}, opened, log)
           out == detect_all_from(Locals(left), files, scope, tool_filter)
       IN /\ det' = out.result
          /\ opened' = opened \o out.opened
          /\ log' = log \o out.log
    /\ UNCHANGED <<args, exit_code, agents>>
    /\ UNCHANGED <<files, scope, tool_filter, result, selected, scrub_secrets, outfs, cres,
                   component_filter, filtered, parsed>>

Next == Construct \/ DetectAll \/ DetectAgain

Spec == Init /\ [][Next]_vars

(***************************************************************************)
(* Packaging runs: a project is scanned, a file may disappear after the    *)
(* scan, and create() is called once with a selection.                     *)
(***************************************************************************)
Project(paths) == {e \in Catalog : e.path \in paths /\ e.real = e.path}

ScannedProjects == {
    {},
    Project({"/work/p/.cursor/mcp.json", "/work/p/.claude/hooks/pre-tool.sh",
             "/work/p/.claude/rules/style.md", "/work/p/CLAUDE.md", "/work/p/docs/CLAUDE.md"}),
    Project({"/home/u/.cursor/mcp.json", "/work/p/.vscode/mcp.json",
             "/work/p/.claude/settings.local.json", "/work/p/.devsync/mcp/local.json"}),
    Project({"/work/p/.claude/skills/review/SKILL.md", "/work/p/.windsurf/workflows/deploy.md",
             "/work/p/.claude/commands/build.sh", "/work/p/.devsync/resources/a.txt"}),
    Project({"/work/p/.claude/rules/style.md", "/work/p/.cursor/rules/style.md",
             "/work/p/.devsync/resources/a.txt", "/work/p/.devsync/resources/sub/a.txt"}),
    Project({"/work/p/.mcp.json", "/work/p/.claude/hooks/pre-tool.sh"}) }

AfterScan(fs) == {fs} \cup {fs \ {e} : e \in fs}

Kinds == {"instructions", "mcp_servers", "hooks", "commands", "skills", "workflows",
          "memory_files", "resources"}

\* The components of full whose kind is in kinds, less the MCP server dropped.
Narrowed(full, kinds, dropped) ==
    [k \in Kinds |->
        IF k \notin kinds THEN <<>>
        ELSE IF k = "mcp_servers" THEN SelectSeq(full[k], LAMBDA name : name /= dropped)
        ELSE full[k]]

Selections(d) ==
    LET full == to_package_components(d)
    IN {<<>>}
       \cup {<<Narrowed(full, kinds, dropped)>> :
                kinds \in {{}, Kinds, {"mcp_servers"}, Kinds \ {"mcp_servers"},
                           {"hooks", "instructions"}, {"memory_files", "skills", "commands"}},
                dropped \in Names(full.mcp_servers) \cup {None}}

InitCreate ==
    /\ \E fs \in ScannedProjects :
          /\ det = detect_all(fs, "all", None).result
          /\ files \in AfterScan(fs)
    /\ selected \in Selections(det)
    /\ scrub_secrets \in BOOLEAN
    /\ outfs \in {NoPackage, OldPackage}
    /\ cres = NotReturned
    /\ IdleFilter
    /\ IdleParse
    /\ IdleCommand
    /\ scope = "all"
    /\ tool_filter = None
    /\ result = NoDetection
    /\ opened = <<>>
    /\ log = <<>>
    /\ pc = "scanned"

Create ==
    /\ pc = "scanned"
    /\ pc' = "created"
    /\ LET made == create(files, outfs, det, selected, scrub_secrets)
       IN /\ outfs' = made.out
          /\ cres' = made.res
    /\ UNCHANGED <<args, exit_code, agents>>
    /\ UNCHANGED <<files, scope, tool_filter, result, opened, log, det, selected, scrub_secrets,
                   component_filter, filtered, parsed>>

\* parse_manifest(package_dir) on what create() left in the output directory.
Parse ==
    /\ pc = "created"
    /\ pc' = "parsed"
    /\ parsed' = parse_manifest(outfs)
    /\ UNCHANGED <<args, exit_code, agents>>
    /\ UNCHANGED <<files, scope, tool_filter, result, opened, log, det, selected, scrub_secrets,
                   outfs, cres, component_filter, filtered>>

NextCreate == Create \/ Parse

SpecCreate == InitCreate /\ [][NextCreate]_vars

(***************************************************************************)
(* Filtering runs: a project is scanned and filter_detection_result is     *)
(* called once on the detection result.                                    *)
(***************************************************************************)
ToolArgs == {None, <<>>, <<"Claude">>, <<"CURSOR", "nobody">>}

ComponentArgs ==
    {None, <<>>, <<"Rules">>, <<"MCP", "Memory">>, <<"resources", "bogus">>, <<"bogus">>,
     <<"instructions", "hooks", "commands", "skills", "workflows", "memory_files", "mcp_servers">>}

InitFilter ==
    /\ files \in ScannedProjects
    /\ det = detect_all(files, "all", None).result
    /\ tool_filter \in ToolArgs
    /\ component_filter \in ComponentArgs
    /\ filtered = NoDetection
    /\ IdleParse
    /\ IdleCommand
    /\ selected = <<>>
    /\ scrub_secrets = TRUE
    /\ outfs = NoPackage
    /\ cres = NotReturned
    /\ scope = "all"
    /\ result = NoDetection
    /\ opened = <<>>
    /\ log = <<>>
    /\ pc = "detected"

Filter ==
    /\ pc = "detected"
    /\ pc' = "filtered"
    /\ filtered' = filter_detection_result(det, tool_filter, component_filter)
    /\ UNCHANGED <<args, exit_code, agents>>
    /\ UNCHANGED <<files, scope, tool_filter, result, opened, log, det, selected, scrub_secrets,
                   outfs, cres, component_filter, parsed>>

NextFilter == Filter

SpecFilter == InitFilter /\ [][NextFilter]_vars

(***************************************************************************)
(* Properties of the detector run                                          *)
(***************************************************************************)
Registered == Range(CAPABILITY_REGISTRY)

GlobalLabels == {cap.mcp_config_path : cap \in Registered} \ {""}

ProjectLabels == {cap.mcp_project_config_path : cap \in Registered} \ {""}

\* A location inside the home directory: the directory itself or below it.
WithinHome(p) == p = Home \/ StartsWith(p, Home \o "/")

\* Reads of MCP config files made by the registry loop.
RegistryReads ==
    {i \in DOMAIN opened : opened[i].label \in GlobalLabels \cup ProjectLabels}

\* Records the registry loop emitted for server name out of the real file.
RecordsOf(real, name) ==
    {i \in DOMAIN result.mcp_servers :
        /\ result.mcp_servers[i].source_tool /= "devsync"
        /\ Resolve(files, result.mcp_servers[i].file_path) = real
        /\ result.mcp_servers[i].name = name}

Symlinks == {e \in files : e.real /= e.path}

AllRecords ==
    Range(result.instructions) \cup Range(result.mcp_servers) \cup Range(result.hooks)
    \cup Range(result.commands) \cup Range(result.workflows)
    \cup Range(result.memory_files) \cup Range(result.resources)

\* C2: under scope 'global' or 'all' no file is opened through a registry
\* entry's global MCP config path unless that path resolves to a location
\* inside the home directory.
C2_EscapingGlobalPathNeverRead ==
    pc = "done" =>
        \A i \in DOMAIN opened :
            opened[i].label \in GlobalLabels => WithinHome(opened[i].real)

\* C5: under scope 'all', when a tool's project and global MCP config paths
\* resolve to the same real file, the registry loop opens that file once and
\* each server it declares under the tool's key yields exactly one record.
C5_SharedConfigYieldsOneRecordPerServer ==
    (pc = "done" /\ scope = "all") =>
        \A cap \in Range(get_registry_entries(tool_filter)) :
            LET project_path == JoinPath(ProjectRoot, cap.mcp_project_config_path)
                global_path == ExpandUser(cap.mcp_config_path)
                real == Resolve(files, project_path)
                declared == ServerMap(Content(real), cap.mcp_servers_json_key)
            IN (/\ cap.mcp_project_config_path /= ""
                /\ cap.mcp_config_path /= ""
                /\ Exists(files, project_path)
                /\ Exists(files, global_path)
                /\ Resolve(files, global_path) = real)
               => /\ Cardinality({i \in RegistryReads : opened[i].real = real}) = 1
                  /\ \A k \in DOMAIN declared :
                        Cardinality(RecordsOf(real, declared[k].name)) = 1

\* C6: with no tool filter and no symlinks, project-scope detection yields,
\* for every registered tool whose project MCP config file exists, one record
\* per server declared in that file, attributed to that tool.
C6_ServersAttributedToOwningTool ==
    (pc = "done" /\ scope = "project" /\ tool_filter = None /\ Symlinks = {}) =>
        \A cap \in Registered :
            LET project_path == JoinPath(ProjectRoot, cap.mcp_project_config_path)
                declared == ServerMap(Content(project_path), cap.mcp_servers_json_key)
            IN (cap.mcp_project_config_path /= "" /\ Exists(files, project_path))
               => \A k \in DOMAIN declared :
                     Cardinality({i \in DOMAIN result.mcp_servers :
                         /\ result.mcp_servers[i].name = declared[k].name
                         /\ result.mcp_servers[i].file_path = project_path
                         /\ result.mcp_servers[i].source_tool = cap.tool}) = 1

\* C7: with scope 'project' no file is read through a global (home) path, and
\* with scope 'global' no file is read through a project path and no record
\* comes from a file under the project root.
C7_ScopeGatesEveryRoot ==
    pc = "done" =>
        /\ scope = "project" =>
              \A i \in DOMAIN opened : opened[i].label \notin GlobalLabels
        /\ scope = "global" =>
              /\ \A i \in DOMAIN opened : opened[i].label \in GlobalLabels
              /\ \A r \in AllRecords : ~StartsWith(r.file_path, ProjectRoot \o "/")
              /\ result.skills = <<>>

(***************************************************************************)
(* Properties of packaging                                                 *)
(***************************************************************************)
\* The components create() packages in the current run.
Components == IF selected = <<>> THEN to_package_components(det) ELSE selected[1]

EmptySelection == components_total(Components) = 0

McpFiles == {x \in outfs.entries : x.kind = "mcp"}

McpPath(name) == "mcp/" \o name \o ".json"

SecretKeys(config) == {i \in DOMAIN config.env : IsSecret(config.env[i][1], config.env[i][2])}

\* C1: with scrubbing enabled, no written mcp/<name>.json holds, under a key
\* that the secret detector grades medium or higher in a detected server of
\* that name, the server's original value: what stands there contains the key
\* name; and the file of a successful run holds, for each such key of the
\* server it was written from, the placeholder of that key.
C1_ScrubbedFilesHoldNoSecret ==
    (pc = "created" /\ scrub_secrets) =>
        /\ \A x \in McpFiles : \A i \in DOMAIN det.mcp_servers :
              LET env == det.mcp_servers[i].config.env
              IN McpPath(det.mcp_servers[i].name) = x.path =>
                    \A k \in SecretKeys(det.mcp_servers[i].config) : \A j \in DOMAIN x.config.env :
                        x.config.env[j][1] = env[k][1] =>
                            /\ x.config.env[j][2] /= env[k][2]
                            /\ Contains(x.config.env[j][2], env[k][1])
        /\ cres.success =>
              \A i \in DOMAIN det.mcp_servers :
                  LET last == Lookup(det.mcp_servers, det.mcp_servers[i].name)[1]
                  IN \E x \in McpFiles :
                        /\ x.path = McpPath(last.name)
                        /\ \A k \in SecretKeys(last.config) :
                              x.config.env[k] = <<last.config.env[k][1], Placeholder(last.config.env[k][1])>>

C1_SecretWasScrubbed ==
    /\ pc = "created" /\ scrub_secrets /\ cres.success
    /\ \E i \in DOMAIN det.mcp_servers :
          /\ SecretKeys(det.mcp_servers[i].config) /= {}
          /\ \E x \in McpFiles : x.path = McpPath(det.mcp_servers[i].name)

\* C3: create() on a selection with zero components fails with a 'No
\* components' error and leaves the output directory as it was: no package
\* directory is created and nothing is written.
C3_EmptySelectionWritesNothing ==
    [][(pc = "scanned" /\ EmptySelection) =>
          /\ ~cres'.success
          /\ Contains(cres'.error_message, "No components")
          /\ outfs' = outfs]_vars

C3_EmptySelectionRefused ==
    /\ pc = "created" /\ EmptySelection
    /\ ~cres.success /\ outfs = NoPackage

\* C4 (as stated): whenever the package directory already exists, create()
\* fails with an 'already exists' error and the directory is unchanged.
C4_ExistingDirectoryRefusedAsExisting ==
    [][(pc = "scanned" /\ outfs.exists) =>
          /\ ~cres'.success
          /\ Contains(cres'.error_message, "already exists")
          /\ outfs' = outfs]_vars

\* C4 (amended): whenever the package directory already exists, create() fails
\* and the directory is unchanged; the error is 'already exists' when the
\* selection holds at least one component and 'No components to package' when
\* it holds none.
C4_ExistingDirectoryUntouched ==
    [][(pc = "scanned" /\ outfs.exists) =>
          /\ ~cres'.success
          /\ outfs' = outfs
          /\ IF EmptySelection
             THEN cres'.error_message = "No components to package"
             ELSE Contains(cres'.error_message, "already exists")]_vars

C4_ExistingDirectoryRefused ==
    /\ pc = "created" /\ outfs = OldPackage /\ ~EmptySelection
    /\ ~cres.success /\ Contains(cres.error_message, "already exists")

\* The number of keys templated in the detected servers that are selected.
SelectedSecrets ==
    ForEach(LAMBDA n, server :
                IF server.name \in Names(Components.mcp_servers)
                THEN n + Len(Templated(server, scrub_secrets).keys) ELSE n,
            0, det.mcp_servers)

\* C8: after a successful create() with a given selection, every
\* mcp/<name>.json in the package is the file of a selected MCP server, and
\* secrets_templated is the number of keys templated in selected servers.
C8_OnlySelectedServersWritten ==
    (pc = "created" /\ cres.success /\ selected /= <<>>) =>
        /\ \A x \in McpFiles : \E name \in Names(Components.mcp_servers) : x.path = McpPath(name)
        /\ cres.secrets_templated = SelectedSecrets

\* The selected detected records that are copied as single files, with the
\* package path each is copied to.
Selected(kind, records, names, Dest(_)) ==
    {[kind |-> kind, name |-> records[i].name, src |-> records[i].file_path,
      dest |-> Dest(records[i])] : i \in {j \in DOMAIN records : records[j].name \in names}}

SelectedFiles ==
    Selected("instruction", det.instructions, Names(Components.instructions),
             LAMBDA r : "instructions/" \o r.name \o ".md")
    \cup Selected("hook", det.hooks, Names(Components.hooks),
                  LAMBDA r : "hooks/" \o Basename(r.file_path))
    \cup Selected("command", det.commands, Names(Components.commands),
                  LAMBDA r : "commands/" \o Basename(r.file_path))
    \cup Selected("resource", det.resources, Names(Components.resources),
                  LAMBDA r : "resources/" \o Basename(r.file_path))
    \cup Selected("workflow", det.workflows, Names(Components.workflows),
                  LAMBDA r : "workflows/" \o Basename(r.file_path))
    \cup Selected("memory file", det.memory_files, Names(Components.memory_files), MemoryDest)

SelectedSkills == {det.skills[i] : i \in {j \in DOMAIN det.skills : det.skills[j].name \in Names(Components.skills)}}

CanCopy(src) == \E e \in files : AbsPath(e) = src /\ Readable(e.real)

CanCopyTree(dir) ==
    /\ \E e \in files : StartsWith(AbsPath(e), dir \o "/")
    /\ \A e \in files : StartsWith(AbsPath(e), dir \o "/") => Readable(e.real)

C10_TemplateIdempotent ==
    (pc = "created" /\ scrub_secrets) =>
        /\ \A i \in DOMAIN det.mcp_servers :
              LET once == template_secrets_in_config(det.mcp_servers[i].config)
              IN template_secrets_in_config(once.config) = [config |-> once.config, keys |-> <<>>]
        /\ \A x \in McpFiles :
              template_secrets_in_config(x.config) = [config |-> x.config, keys |-> <<>>]

C10_TemplatedConfigWritten ==
    /\ pc = "created" /\ scrub_secrets /\ cres.success
    /\ \E x \in McpFiles : \E j \in DOMAIN x.config.env : IsPlaceholder(x.config.env[j][2])
    /\ \E i \in DOMAIN det.mcp_servers :
          template_secrets_in_config(det.mcp_servers[i].config).keys /= <<>>

\* C11: with scrubbing enabled, the credentials the manifest of a successful
\* run lists for a selected MCP server are exactly the environment variables
\* of the detected server of that name that the secret detector grades medium
\* or higher, which are the keys templated in its JSON file.
C11_CredentialsAreTheTemplatedKeys ==
    (pc = "created" /\ cres.success /\ scrub_secrets) =>
        \A i \in DOMAIN outfs.manifest[1].mcp_servers :
            LET component == outfs.manifest[1].mcp_servers[i]
                found == Lookup(det.mcp_servers, component.name)
            IN found /= <<>> =>
                  Range(component.credentials)
                      = Range(template_secrets_in_config(found[1].config).keys)

\* The instruction records detected from the file at path.
InstructionsFrom(path) ==
    {i \in DOMAIN result.instructions : result.instructions[i].file_path = path}

\* C12: with no tool filter, for every registered tool that declares an
\* instructions directory, each readable file directly inside that directory
\* of the project whose name ends with the tool's declared extension yields
\* exactly one Instruction record, attributed to that tool, and a file there
\* with another extension yields none.
C12_InstructionsFollowTheRegistry ==
    (pc = "done" /\ tool_filter = None) =>
        \A cap \in Registered : \A e \in files :
            (/\ cap.instructions_directory /= ""
             /\ e.dir = JoinPath(ProjectRoot, cap.instructions_directory)
             /\ Readable(e.real))
            => IF EndsWith(FileName(e), cap.instruction_file_extension)
               THEN /\ Cardinality(InstructionsFrom(e.path)) = 1
                    /\ \A i \in InstructionsFrom(e.path) :
                          result.instructions[i].source_ide = cap.tool
               ELSE InstructionsFrom(e.path) = {}

\* C13: in the result of one detection pass, two memory file records at
\* different relative paths never have the same name.
C13_MemoryNamesUniquePerPath ==
    pc = "done" =>
        \A i, j \in DOMAIN result.memory_files :
            result.memory_files[i].relative_path /= result.memory_files[j].relative_path
            => result.memory_files[i].name /= result.memory_files[j].name

\* The per-item problems detect_all met and recovered from.
Problems == {i \in DOMAIN log : log[i].kind \in {"read", "json", "max size"}}

\* C14: every recoverable per-item problem met during detect_all (a file that
\* cannot be read, a config that is not valid JSON, a resource over the
\* maximum size) has an entry in the warnings of the returned result, and the
\* items after it are still processed: every other resource is detected.
C14_ProblemsBecomeWarnings ==
    pc = "done" =>
        /\ \A i \in Problems :
              \E w \in DOMAIN result.warnings : Contains(result.warnings[w], log[i].path)
        /\ \A e \in files :
              (/\ e.dir = JoinPath(ProjectRoot, RESOURCE_LOCATIONS[1])
               /\ Readable(e.real)
               /\ Size(e.real) <= MAX_RESOURCE_SIZE)
              => \E r \in Range(result.resources) : r.file_path = AbsPath(e)

(***************************************************************************)
(* Properties of filtering                                                 *)
(***************************************************************************)
\* The list a component filter entry names, "" when it names none.
NamedList(entry) ==
    LET e == Lower(entry)
    IN CASE e \in {"rules", "instructions"} -> "instructions"
         [] e \in {"mcp", "mcp_servers"} -> "mcp_servers"
         [] e \in {"memory", "memory_files"} -> "memory_files"
         [] e \in {"hooks", "commands", "skills", "workflows", "resources"} -> e
         [] OTHER -> ""

NamedLists(cf) == {NamedList(cf[i]) : i \in DOMAIN cf} \ {""}

\* An optional list argument that is None or empty.
Unfiltered(f) == f = None \/ f = <<>>

Lowered(tf) == {Lower(tf[i]) : i \in DOMAIN tf}

\* The attribute that carries the provenance of the records of a list.
ProvenanceTag(kind) == IF kind = "instructions" THEN "source_ide" ELSE "source_tool"

\* The records of a detected list whose provenance is in the tool filter.
FromTools(kind) ==
    SelectSeq(det[kind], LAMBDA item : Lower(item[ProvenanceTag(kind)]) \in Lowered(tool_filter))

\* C15 (as stated): with a component filter and no tool filter, the lists
\* the filter entries name are returned unchanged and every other list is
\* returned empty.
C15_ComponentFilterKeepsNamedLists ==
    (pc = "filtered" /\ component_filter /= None /\ tool_filter = None) =>
        \A kind \in Kinds :
            filtered[kind] = IF kind \in NamedLists(component_filter) THEN det[kind] ELSE <<>>

\* C15 (amended): with a non-empty component filter and no tool filter, the
\* lists the filter entries name (case-insensitively, aliases included) are
\* returned unchanged and every other list is returned empty; an empty
\* component filter is no filter: every list is returned unchanged.
C15_NonEmptyComponentFilterKeepsNamedLists ==
    (pc = "filtered" /\ component_filter /= None /\ tool_filter = None) =>
        \A kind \in Kinds :
            filtered[kind] = IF Unfiltered(component_filter) \/ kind \in NamedLists(component_filter)
                             THEN det[kind] ELSE <<>>

C15_AliasKeptOthersEmptied ==
    /\ pc = "filtered" /\ tool_filter = None
    /\ ~Unfiltered(component_filter) /\ NamedLists(component_filter) = {"mcp_servers", "memory_files"}
    /\ det.mcp_servers /= <<>> /\ filtered.mcp_servers = det.mcp_servers
    /\ det.memory_files /= <<>> /\ filtered.memory_files = det.memory_files
    /\ det.hooks /= <<>> /\ filtered.hooks = <<>>

\* C16 (as stated): with a tool filter, every list but resources keeps
\* exactly its records whose provenance tag is in the filter,
\* case-insensitively (none when a component filter omits the list), and
\* resources are returned unchanged unless a component filter omits them.
C16_ToolFilterKeepsTaggedRecords ==
    (pc = "filtered" /\ tool_filter /= None) =>
        /\ \A kind \in Kinds \ {"resources"} :
              filtered[kind] =
                  IF Unfiltered(component_filter) \/ kind \in NamedLists(component_filter)
                  THEN FromTools(kind) ELSE <<>>
        /\ filtered.resources =
              IF Unfiltered(component_filter) \/ "resources" \in NamedLists(component_filter)
              THEN det.resources ELSE <<>>

\* C16 (amended): the same for a non-empty tool filter; an empty tool filter
\* is no filter and removes no record.
C16_NonEmptyToolFilterKeepsTaggedRecords ==
    (pc = "filtered" /\ tool_filter /= None) =>
        /\ \A kind \in Kinds \ {"resources"} :
              filtered[kind] =
                  IF Unfiltered(component_filter) \/ kind \in NamedLists(component_filter)
                  THEN (IF Unfiltered(tool_filter) THEN det[kind] ELSE FromTools(kind))
                  ELSE <<>>
        /\ filtered.resources =
              IF Unfiltered(component_filter) \/ "resources" \in NamedLists(component_filter)
              THEN det.resources ELSE <<>>

C16_ResourcesSurviveToolFilter ==
    /\ pc = "filtered" /\ component_filter = None
    /\ ~Unfiltered(tool_filter) /\ Lowered(tool_filter) = {"claude"}
    /\ det.resources /= <<>> /\ filtered.resources = det.resources
    /\ det.commands /= <<>> /\ filtered.commands = det.commands
    /\ det.workflows /= <<>> /\ filtered.workflows = <<>>

\* The tool filter with every name in lower case.
LoweredFilter == ForEach(LAMBDA names, t : Append(names, Lower(t)), <<>>, tool_filter)

\* The provenance tags of the records detect_all returned.
ResultTags ==
    {r.source_ide : r \in Range(result.instructions)}
    \cup {r.source_tool : r \in Range(result.mcp_servers) \cup Range(result.hooks)
                                \cup Range(result.commands) \cup Range(result.skills)
                                \cup Range(result.workflows) \cup Range(result.memory_files)}

C19_InvalidScopeRaisesAtConstruction ==
    [][/\ pc = "new" =>
            /\ pc' = IF scope \in {"project", "global", "all"} THEN "ready" ELSE "raised"
            /\ opened' = <<>> /\ log' = <<>> /\ result' = NoDetection
       /\ pc /= "raised"]_vars

C19_InvalidScopeRaised ==
    pc = "raised" /\ scope = "workspace" /\ opened = <<>> /\ result = NoDetection

\* Field f of a manifest entry is found with the same value in what the
\* parser made of that entry.
Preserved(entry, read, f) == f \in DOMAIN read /\ read[f] = entry[f]

\* What parse_manifest made of entry i of a kind of the written manifest.
ParsedEntry(kind, i) ==
    IF kind = "mcp_servers" THEN parsed.mcp_servers[i] ELSE parsed.components[kind][i]

KindExtras(kind) ==
    CASE kind = "hooks" -> {"hook_type"}
      [] kind = "commands" -> {"command_type"}
      [] kind = "mcp_servers" -> {"credentials"}
      [] kind = "resources" -> {"checksum", "size"}
      [] OTHER -> {}

\* C20: parsing the manifest that create() wrote keeps, for every component
\* entry, its name, file and description and the extras of its kind:
\* hook_type, command_type, the MCP credentials, the resource checksum and
\* size.
C20_ManifestRoundTrips ==
    (pc = "parsed" /\ cres.success) =>
        /\ parsed.found
        /\ \A kind \in DOMAIN outfs.document[1].components :
              \A i \in DOMAIN outfs.document[1].components[kind] :
                  \A f \in {"name", "file", "description"} \cup KindExtras(kind) :
                      Preserved(outfs.document[1].components[kind][i], ParsedEntry(kind, i), f)

(***************************************************************************)
(* devsync extract: the command is invoked once on a project               *)
(***************************************************************************)
\* AIToolDetector.get_tool_names, and validate_tool_name, which accepts one of
\* these names in any case.
TOOL_NAMES ==
    {"cursor", "copilot", "winsurf", "claude", "kiro", "cline", "roo", "codex", "gemini",
     "antigravity", "amazonq", "jetbrains", "junie", "zed", "continue", "aider", "trae",
     "augment", "tabnine", "openhands", "amp", "opencode"}

validate_tool_name(t) == Lower(t) \in TOOL_NAMES

\* A version 1 package holding one instruction file, and one whose manifest
\* lists no instruction.
V1Package(refs) ==
    [exists |-> TRUE,
     entries |-> {Entry(V1_MANIFEST_FILE, "manifest", "", NoConfig),
                  Entry("instructions/rule.md", "copy", "", NoConfig)},
     manifest |-> <<>>,
     document |-> <<[name |-> "v1-pkg",
                     components |-> [instructions |-> refs, mcp_servers |-> <<>>]]>>]

V2Package ==
    [exists |-> TRUE, entries |-> {Entry(V2_MANIFEST_FILE, "manifest", "", NoConfig)},
     manifest |-> <<>>, document |-> <<>>]

Exit(code, out) == [code |-> code, out |-> out]

\* PracticeExtractor is given a provider when AI is allowed and a key is found.
AiPowered(a) == ~a.no_ai /\ a.api_key

\* output_path.mkdir(parents=True, exist_ok=True), _copy_source_files in
\* file-copy mode, then the manifest: what is in the directory stays unless a
\* written file replaces it.
WritePackage(out, a, source_files, name) ==
    LET made == Copying(out.entries, <<>>, "")
        copied == IF AiPowered(a) THEN made
                  ELSE ForEach(LAMBDA st, f :
                                   Write(st, Entry("instructions/" \o Basename(f), "copy", f,
                                                   NoConfig)),
                               made, source_files)
        written == Write(copied, Entry(V2_MANIFEST_FILE, "manifest", "", NoConfig))
    IN [exists |-> TRUE, entries |-> written.entries, manifest |-> <<>>,
        document |-> <<[format_version |-> "2.0", name |-> name]>>]

\* PracticeExtractor._read_instruction_files: the paths, relative to the
\* project, of the detected instruction files that still exist and can be read.
read_instruction_files(fs, detection) ==
    ForEach(LAMBDA found, instr :
                IF /\ \E e \in fs : AbsPath(e) = instr.file_path /\ Readable(e.real)
                   /\ \A i \in DOMAIN found : found[i] /= instr.relative_path
                THEN Append(found, instr.relative_path) ELSE found,
            <<>>, detection.instructions)

upgrade_v1_package(package, out, a) ==
    LET v1_manifest == parse_manifest(package)
        refs == v1_manifest.components.instructions
        instruction_files ==
            ForEach(LAMBDA found, ref :
                        IF \E x \in package.entries : x.path = ref.file
                        THEN Append(found, ref.file) ELSE found,
                    <<>>, refs)
    IN IF ~package.exists THEN Exit(1, out)
       ELSE IF detect_manifest_format(package) = None THEN Exit(1, out)
       ELSE IF detect_manifest_format(package) = "v2" THEN Exit(0, out)
       ELSE IF instruction_files = <<>> THEN Exit(1, out)
       ELSE Exit(0, WritePackage(out, a, instruction_files,
                                 IF a.name /= "" THEN a.name ELSE v1_manifest.name))

\* --include-global takes precedence over the deprecated --scope.
effective_scope(a) == IF a.include_global THEN "all" ELSE a.scope

ValidArguments(a) ==
    /\ effective_scope(a) \in {"project", "global", "all"}
    /\ FilterOn(a.tool) => \A i \in DOMAIN a.tool : validate_tool_name(a.tool[i])
    /\ FilterOn(a.component) =>
          \A i \in DOMAIN a.component : Lower(a.component[i]) \in DOMAIN COMPONENT_TYPE_MAP
    /\ a.is_dir

\* Phase 1 of the command: detection, then the component filter if one is given.
Detection(fs, a) ==
    LET detection == detect_all(fs, effective_scope(a), a.tool).result
    IN IF FilterOn(a.component)
       THEN filter_detection_result(detection, None, a.component)
       ELSE detection

\* a.upgrade is <<>> for None and <<the package at that path>> otherwise; out
\* is the output directory.
extract_command(fs, out, a) ==
    IF a.upgrade /= <<>> THEN upgrade_v1_package(a.upgrade[1], out, a)
    ELSE IF ~ValidArguments(a) THEN Exit(1, out)
    ELSE IF total_count(Detection(fs, a)) = 0 THEN Exit(0, out)
    ELSE IF a.dry_run THEN Exit(0, out)
    ELSE Exit(0, WritePackage(out, a, read_instruction_files(fs, Detection(fs, a)),
                              IF a.name /= "" THEN a.name ELSE "p"))

ExtractArguments ==
    [command : {"extract"}, name : {"", "demo"}, no_ai : BOOLEAN, api_key : {TRUE},
     is_dir : BOOLEAN,
     upgrade : {<<>>, <<NoPackage>>, <<V2Package>>, <<V1Package(<<>>)>>,
                <<V1Package(<<[name |-> "rule", file |-> "instructions/rule.md"]>>)>>},
     tool : {None, <<"CURSOR">>, <<"nobody">>},
     component : {None, <<"hooks">>, <<"bogus">>},
     scope : {"project", "workspace"}, dry_run : BOOLEAN, include_global : BOOLEAN]

InitExtract ==
    /\ files \in ScannedProjects
    /\ args \in ExtractArguments
    /\ exit_code = NotExited
    /\ agents = <<>>
    /\ outfs = NoPackage
    /\ det = NoDetection
    /\ selected = <<>>
    /\ scrub_secrets = TRUE
    /\ cres = NotReturned
    /\ IdleFilter
    /\ IdleParse
    /\ scope = "project"
    /\ tool_filter = None
    /\ result = NoDetection
    /\ opened = <<>>
    /\ log = <<>>
    /\ pc = "invoked"

Extract ==
    /\ pc = "invoked"
    /\ pc' = "exited"
    /\ \E exited \in {extract_command(files, outfs, args)} :
          /\ exit_code' = <<exited.code>>
          /\ outfs' = exited.out
    /\ UNCHANGED <<args, agents>>
    /\ UNCHANGED <<files, scope, tool_filter, result, opened, log, det, selected, scrub_secrets,
                   cres, component_filter, filtered, parsed>>

NextExtract == Extract

SpecExtract == InitExtract /\ [][NextExtract]_vars

\* C21: when the arguments of extract_command are valid and the run is a dry
\* run, or detection after filtering finds zero components, the command
\* returns 0 and the output directory is not created.
C21_DryRunOrNoComponentsWritesNothing ==
    (/\ pc = "exited"
     /\ ValidArguments(args)
     /\ args.dry_run \/ (args.upgrade = <<>> /\ total_count(Detection(files, args)) = 0))
        => (exit_code = <<0>> /\ ~outfs.exists)

(***************************************************************************)
(* The single-file tool (Codex CLI): instructions are sections of          *)
(* AGENTS.md.  The file is held as its lines: the text is the lines joined *)
(* by "\n" and ended by "\n", and <<>> is the empty text.                  *)
(***************************************************************************)
START_MARKER(name) == "<!-- devsync:start:" \o name \o " -->"

END_MARKER(name) == "<!-- devsync:end:" \o name \o " -->"

NoFile == [exists |-> FALSE, lines |-> <<>>]

\* start in content
HasStart(lines, name) == \E i \in DOMAIN lines : lines[i] = START_MARKER(name)

\* SECTION_PATTERN with re.DOTALL, searched from line from on: the leftmost
\* start marker that an end marker follows after "\n.*?\n", up to the nearest
\* such end marker.  <<>> when nothing matches, else <<first, last>>.
SECTION_PATTERN(lines, name, from) ==
    LET ends(i) == {j \in (i + 2)..Len(lines) : lines[j] = END_MARKER(name)}
        starts == {i \in from..Len(lines) : lines[i] = START_MARKER(name) /\ ends(i) /= {}}
        first == CHOOSE i \in starts : \A k \in starts : i <= k
        last == CHOOSE j \in ends(first) : \A k \in ends(first) : j <= k
    IN IF starts = {} THEN <<>> ELSE <<first, last>>

\* re.sub(pattern, repl, content, flags=re.DOTALL): every match, left to right.
RECURSIVE re_sub(_, _, _, _)
re_sub(lines, name, repl, from) ==
    LET m == SECTION_PATTERN(lines, name, from)
    IN IF m = <<>> THEN SubSeq(lines, from, Len(lines))
       ELSE SubSeq(lines, from, m[1] - 1) \o repl \o re_sub(lines, name, repl, m[2] + 1)

\* re.sub(r"\n{3,}", "\n\n", new_content).strip(): blank lines at either end
\* go, and a run of blank lines between two lines shrinks to one blank line.
RECURSIVE KeepLines(_, _, _)
KeepLines(lines, keep, i) ==
    IF i > Len(lines) THEN <<>>
    ELSE (IF i \in keep THEN <<lines[i]>> ELSE <<>>) \o KeepLines(lines, keep, i + 1)

CleanBlankLines(lines) ==
    LET keep == {i \in DOMAIN lines :
                    \/ lines[i] /= ""
                    \/ /\ i > 1
                       /\ lines[i - 1] /= ""
                       /\ \E k \in (i + 1)..Len(lines) : lines[k] /= ""}
    IN KeepLines(lines, keep, 1)

Returned(file, value) == [file |-> file, value |-> value]

\* instruction is [name, content], the content as its lines; the value is the
\* path returned, or the exception raised.
install_instruction(file, instruction, overwrite, sc) ==
    LET section == <<START_MARKER(instruction.name)>> \o instruction.content
                   \o <<END_MARKER(instruction.name)>>
    IN IF sc = "global" THEN Returned(file, "NotImplementedError")
       ELSE IF ~file.exists THEN Returned([exists |-> TRUE, lines |-> section], "AGENTS.md")
       ELSE IF HasStart(file.lines, instruction.name)
       THEN IF ~overwrite THEN Returned(file, "FileExistsError")
            ELSE Returned([file EXCEPT !.lines = re_sub(@, instruction.name, section, 1)],
                          "AGENTS.md")
       ELSE Returned([file EXCEPT !.lines = @ \o <<"">> \o section], "AGENTS.md")

uninstall_instruction(file, instruction_name, sc) ==
    IF sc = "global" \/ ~file.exists \/ ~HasStart(file.lines, instruction_name)
    THEN Returned(file, "False")
    ELSE Returned([file EXCEPT !.lines = CleanBlankLines(re_sub(@, instruction_name, <<"">>, 1))],
                  "True")

InstructionNames == {"a", "b"}

InstructionContents == {<<"x">>, <<"y">>, <<"x", "", "y">>, <<"x", "", "", "y">>}

InstallationScopes == {"project", "global"}

InitAgents ==
    /\ agents = NoFile
    /\ args = NoArgs
    /\ exit_code = NotExited
    /\ files = {}
    /\ scope = "project"
    /\ tool_filter = None
    /\ result = NoDetection
    /\ opened = <<>>
    /\ log = <<>>
    /\ IdleCreate
    /\ IdleFilter
    /\ IdleParse
    /\ pc = "agents"

\* args keeps the call just made and what it gave back.
Install ==
    \E name \in InstructionNames, content \in InstructionContents, overwrite \in BOOLEAN,
       sc \in InstallationScopes :
        LET r == install_instruction(agents, [name |-> name, content |-> content], overwrite, sc)
        IN /\ agents' = r.file
           /\ args' = [command |-> "install", name |-> name, overwrite |-> overwrite,
                       returned |-> r.value]
           /\ UNCHANGED <<exit_code, pc>>
           /\ UNCHANGED <<files, scope, tool_filter, result, opened, log, det, selected,
                          scrub_secrets, outfs, cres, component_filter, filtered, parsed>>

Uninstall ==
    \E name \in InstructionNames, sc \in InstallationScopes :
        LET r == uninstall_instruction(agents, name, sc)
        IN /\ agents' = r.file
           /\ args' = [command |-> "uninstall", name |-> name, overwrite |-> FALSE,
                       returned |-> r.value]
           /\ UNCHANGED <<exit_code, pc>>
           /\ UNCHANGED <<files, scope, tool_filter, result, opened, log, det, selected,
                          scrub_secrets, outfs, cres, component_filter, filtered, parsed>>

NextAgents == Install \/ Uninstall

SpecAgents == InitAgents /\ [][NextAgents]_vars

\* The marker-delimited section of name in the file: <<>> when there is none,
\* else <<the lines between its markers>>.
SectionOf(file, name) ==
    LET m == SECTION_PATTERN(file.lines, name, 1)
    IN IF m = <<>> THEN <<>> ELSE <<SubSeq(file.lines, m[1] + 1, m[2] - 1)>>

\* C22: install_instruction with overwrite=True and uninstall_instruction for
\* name n leave the marker-delimited section of every other instruction,
\* content included, as it was.
C22_OtherSectionsUnchanged ==
    [][(/\ args'.command \in {"install", "uninstall"}
        /\ args'.command = "install" => args'.overwrite)
       => \A m \in InstructionNames \ {args'.name} :
             SectionOf(agents', m) = SectionOf(agents, m)]_vars

CopiedKinds == {"instructions", "hooks", "commands", "workflows", "memory_files", "resources"}

\* C23: after a successful create(), two distinct selected components of the
\* same kind whose sources can both be copied are in the package at two
\* different paths, and no two manifest entries of one kind name the same
\* file.
C23_CollidingComponentsKeptApart ==
    (pc = "created" /\ cres.success) =>
        /\ \A a, b \in SelectedFiles :
              (a.src /= b.src /\ a.kind = b.kind /\ CanCopy(a.src) /\ CanCopy(b.src)) =>
                  \E x, y \in outfs.entries :
                      x.src = a.src /\ y.src = b.src /\ x.path /= y.path
        /\ \A kind \in CopiedKinds : \A i, j \in DOMAIN outfs.manifest[1][kind] :
              i /= j => outfs.manifest[1][kind][i].file /= outfs.manifest[1][kind][j].file

\* C24: a config file parsed under a registry entry is not emitted again by
\* the .devsync/mcp fallback scan: no record of the fallback ('devsync'
\* provenance) comes from a file that the registry loop has read.
C24_FallbackSkipsParsedFiles ==
    pc = "done" =>
        \A i \in DOMAIN result.mcp_servers :
            result.mcp_servers[i].source_tool = "devsync" =>
                \A k \in RegistryReads :
                    opened[k].real /= Resolve(files, result.mcp_servers[i].file_path)

\* Whether a path relative to the package directory, resolved segment by
\* segment as the operating system does, leaves that directory.
RECURSIVE Climbs(_, _)
Climbs(path, depth) ==
    LET slashes == {i \in 1..Len(path) : SubSeq(path, i, i) = "/"}
        cut == IF slashes = {} THEN Len(path) + 1
               ELSE CHOOSE i \in slashes : \A j \in slashes : i <= j
        segment == SubSeq(path, 1, cut - 1)
        below == IF segment = ".." THEN depth - 1
                 ELSE IF segment \in {"", "."} THEN depth ELSE depth + 1
    IN IF path = "" THEN FALSE
       ELSE IF below < 0 THEN TRUE
       ELSE Climbs(SubSeq(path, cut + 1, Len(path)), below)

LeavesPackage(path) == StartsWith(path, "/") \/ Climbs(path, 0)

\* C25: every file create() writes lies inside the package directory,
\* whatever the names of the scanned components.
C25_WritesStayInsidePackage ==
    pc = "created" => \A x \in outfs.entries : ~LeavesPackage(x.path)

(***************************************************************************)
(* aiconfig package create: the command is invoked once.  The answers the  *)
(* user gives at the prompts are part of the arguments.                    *)
(***************************************************************************)
\* name.lower().replace(" ", "-") with "-" and "_" taken out is alphanumeric.
ValidPackageName(name) == name = PackageName

\* a.name is "" for None; a.answer_name is what the user types at the name
\* prompt and a.proceed the answer to "Proceed?".
\* The exit code and the output directory after create() returned.
Reported(made) == Exit(IF made.res.success THEN 0 ELSE 1, made.out)

create_package_command(fs, out, a) ==
    LET detection_result == detect_all(fs, "project", None).result
        name == IF a.name = "" THEN a.answer_name ELSE a.name
        removed == IF out.exists /\ a.force THEN NoPackage ELSE out
        made == create(fs, removed, detection_result, <<>>, a.scrub_secrets)
    IN IF ~a.project_found \/ ~a.output_exists THEN Exit(1, out)
       ELSE IF total_count(detection_result) = 0 THEN Exit(1, out)
       ELSE IF a.name = "" /\ ~a.interactive THEN Exit(1, out)
       ELSE IF ~ValidPackageName(name) THEN Exit(1, out)
       ELSE IF out.exists /\ ~a.force THEN Exit(1, out)
       ELSE IF a.interactive /\ ~a.proceed THEN Exit(0, removed)
       ELSE Reported(made)

PackageArguments ==
    [command : {"package-create"}, name : {"", PackageName, "bad name!"},
     answer_name : {PackageName}, project_found : BOOLEAN, output_exists : BOOLEAN,
     interactive : BOOLEAN, force : BOOLEAN, scrub_secrets : {TRUE}, proceed : BOOLEAN]

InitPackage ==
    /\ files \in ScannedProjects
    /\ args \in PackageArguments
    /\ outfs \in {NoPackage, OldPackage}
    /\ exit_code = NotExited
    /\ agents = <<>>
    /\ det = NoDetection
    /\ selected = <<>>
    /\ scrub_secrets = TRUE
    /\ cres = NotReturned
    /\ IdleFilter
    /\ IdleParse
    /\ scope = "project"
    /\ tool_filter = None
    /\ result = NoDetection
    /\ opened = <<>>
    /\ log = <<>>
    /\ pc = "invoked"

CreatePackage ==
    /\ pc = "invoked"
    /\ pc' = "exited"
    /\ \E exited \in {create_package_command(files, outfs, args)} :
          /\ exit_code' = <<exited.code>>
          /\ outfs' = exited.out
    /\ UNCHANGED <<args, agents>>
    /\ UNCHANGED <<files, scope, tool_filter, result, opened, log, det, selected, scrub_secrets,
                   cres, component_filter, filtered, parsed>>

NextPackage == CreatePackage

SpecPackage == InitPackage /\ [][NextPackage]_vars

\* C26: when the user declines the confirmation prompt of the package-create
\* command, the command leaves the filesystem as it was: an existing package
\* directory is still there.
C26_DecliningLeavesFilesystem ==
    [][(pc = "invoked" /\ args.interactive /\ ~args.proceed) => outfs' = outfs]_vars

(***************************************************************************)
(* create() called, and called again, on a disk that may run full while    *)
(* the manifest is written.                                                *)
(***************************************************************************)
\* open(manifest_path, "w") or yaml.dump raising OSError: the exception is
\* caught by the except branch of create(), which returns the failure and
\* removes nothing of what was made before.
\* The manifest write raising OSError after the component files were copied.
InterruptedWrite(made, write_fails) ==
    IF write_fails /\ made.res.success
    THEN [out |-> [exists |-> TRUE,
                   entries |-> {x \in made.out.entries : x.kind \notin {"manifest", "readme"}},
                   manifest |-> <<>>, document |-> <<>>],
          res |-> Failure("No space left on device")]
    ELSE made

create_on(fs, out, detection_result, selected_components, scrub, write_fails) ==
    InterruptedWrite(create(fs, out, detection_result, selected_components, scrub), write_fails)

InitRetry ==
    /\ \E fs \in ScannedProjects :
          /\ det = detect_all(fs, "all", None).result
          /\ files \in AfterScan(fs)
    /\ selected = <<>>
    /\ scrub_secrets \in BOOLEAN
    /\ outfs \in {NoPackage, OldPackage}
    /\ cres = NotReturned
    /\ args \in [command : {"create"}, write_fails : BOOLEAN]
    /\ exit_code = NotExited
    /\ agents = <<>>
    /\ IdleFilter
    /\ IdleParse
    /\ scope = "all"
    /\ tool_filter = None
    /\ result = NoDetection
    /\ opened = <<>>
    /\ log = <<>>
    /\ pc = "scanned"

CreateOn ==
    /\ pc = "scanned"
    /\ pc' = "created"
    /\ \E made \in {create_on(files, outfs, det, selected, scrub_secrets, args.write_fails)} :
          /\ outfs' = made.out
          /\ cres' = made.res
    /\ UNCHANGED <<args, exit_code, agents>>
    /\ UNCHANGED <<files, scope, tool_filter, result, opened, log, det, selected, scrub_secrets,
                   component_filter, filtered, parsed>>

\* The caller tries again after a failure, the disk having room by then.
Retry ==
    /\ pc = "created"
    /\ ~cres.success
    /\ pc' = "retried"
    /\ \E made \in {create_on(files, outfs, det, selected, scrub_secrets, FALSE)} :
          /\ outfs' = made.out
          /\ cres' = made.res
    /\ UNCHANGED <<args, exit_code, agents>>
    /\ UNCHANGED <<files, scope, tool_filter, result, opened, log, det, selected, scrub_secrets,
                   component_filter, filtered, parsed>>

NextRetry == CreateOn \/ Retry

SpecRetry == InitRetry /\ [][NextRetry]_vars

\* C27: whenever create() returns success=False, no package directory that
\* did not exist before the call exists afterwards.
C27_FailureLeavesNoPackageDirectory ==
    [][(pc \in {"scanned", "created"} /\ ~outfs.exists /\ ~cres'.success) => ~outfs'.exists]_vars

\* The instruction files of a registered tool: the readable files with an
\* instruction extension directly inside the directory the tool declares.
InstructionFilesOf(cap) ==
    {e \in files : /\ cap.instructions_directory /= ""
                   /\ e.dir = JoinPath(ProjectRoot, cap.instructions_directory)
                   /\ e.suffix \in INSTRUCTION_EXTENSIONS
                   /\ Readable(e.real)}

\* C28: every provenance tag of a detected instruction is the identifier of
\* a registered tool, and a tool filter naming identifiers the caller's
\* validation accepts selects the instruction files of each registered tool
\* it names.
C28_OneIdentifierPerTool ==
    pc = "done" =>
        /\ \A i \in DOMAIN result.instructions :
              result.instructions[i].source_ide \in {cap.tool : cap \in Registered}
        /\ (/\ tool_filter /= None
            /\ \A k \in DOMAIN tool_filter : validate_tool_name(tool_filter[k])) =>
              \A cap \in Registered :
                  cap.tool \in Lowered(tool_filter) =>
                      \A e \in InstructionFilesOf(cap) : InstructionsFrom(AbsPath(e)) /= {}

\* C29: under scope 'all', the project MCP config file of every scanned tool
\* that exists is read by the registry loop, and each server it declares
\* under the tool's key is emitted from it, whether or not the tool's global
\* path was rejected or skipped.
C29_ProjectConfigSurvivesGlobalSkip ==
    (pc = "done" /\ scope = "all") =>
        \A cap \in Range(get_registry_entries(tool_filter)) :
            LET project_path == JoinPath(ProjectRoot, cap.mcp_project_config_path)
                real == Resolve(files, project_path)
            IN (cap.mcp_project_config_path /= "" /\ Exists(files, project_path)) =>
                  /\ \E k \in RegistryReads : opened[k].real = real
                  /\ \A server \in Range(ServerMap(Content(real), cap.mcp_servers_json_key)) :
                        \/ RecordsOf(real, server.name) /= {}
                        \/ \E k \in RegistryReads :
                              /\ opened[k].real = real
                              /\ opened[k].by /= cap.tool

\* The capabilities registered under a tool identifier.
CapabilitiesOf(tool) == {cap \in Registered : cap.tool = tool}

\* The records of a list are attributed only to tools that support the kind.
Supported(records, tool_attr, component_type) ==
    \A i \in DOMAIN records : \A cap \in CapabilitiesOf(records[i][tool_attr]) :
        component_type \in cap.supported_components

\* C30: detection emits a component of kind K attributed to a registered
\* tool T only if T's capability lists K in supported_components; in
\* particular no MCP server record is attributed to a tool whose capability
\* does not support MCP servers.
C30_OnlySupportedKindsEmitted ==
    pc = "done" =>
        /\ Supported(result.mcp_servers, "source_tool", "mcp_server")
        /\ Supported(result.instructions, "source_ide", "instruction")
        /\ Supported(result.hooks, "source_tool", "hook")
        /\ Supported(result.commands, "source_tool", "command")
        /\ Supported(result.skills, "source_tool", "skill")
        /\ Supported(result.workflows, "source_tool", "workflow")
        /\ Supported(result.memory_files, "source_tool", "memory_file")
====
